---- MODULE Spec2Model ----
(***************************************************************************)
(* BashBuddy daemon (src/BashBuddy/src/bashbuddy/daemon/server.py): the    *)
(* shared conversation history, the exact-match cache and the tool-calling *)
(* loop of _handle_ask, run by one thread per accepted connection.         *)
(*                                                                         *)
(* Text is a sequence of symbols, so that strip(), lower(), split() and     *)
(* replace() are computed as Python computes them.  A symbol is one         *)
(* character, or one of the fixed words "Command:", "Explanation:" and      *)
(* "None", none of which occurs in part in any text of the model.  Python's *)
(* None is the one-element sequence NoneVal.                                *)
(***************************************************************************)
EXTENDS Integers, Sequences, FiniteSets, TLC

\* ------------------------------------------------------------------ bounds
\* choices the environment makes during one run of the daemon that the daemon's
\* state depends on: every ask that is not answered at once, every reset and
\* every reply of the remote service is one.  While the clients take turns
\* (clients = 1) a reply repeating the previous reply to the same ask is free:
\* a remote service that does not converge.  ping, status and history requests,
\* unknown commands and asks answered from the cache change nothing that later
\* steps depend on and are not counted.
MaxEvents == 3

\* ------------------------------------------------------- program constants
\* server.py:155  max_iterations = 10
MAX_ITERATIONS == 10

\* server.py:68-71: the connection-handler threads that can be alive together
Workers == {1, 2}
\* how many clients use the daemon at a time: one (requests never overlap)
\* or two (their handler threads interleave)
Clients == {1, 2}

\* --------------------------------------------------------------------- text
NoneVal == <<"<None>">>
NL == "\n"
WhiteSpace == {" ", NL, "\t"}

CommandTag == <<"Command:">>
ExplanationTag == <<"Explanation:">>

\* str.lower(), for the letters the model's texts use
LowerChar(c) ==
    CASE c = "L" -> "l"
      [] c = "S" -> "s"
      [] c = "P" -> "p"
      [] c = "W" -> "w"
      [] c = "D" -> "d"
      [] c = "E" -> "e"
      [] c = "Command:" -> "command:"
      [] c = "Explanation:" -> "explanation:"
      [] OTHER -> c

Lower(s) == [i \in 1..Len(s) |-> LowerChar(s[i])]

\* str.strip(): leading and trailing whitespace removed
Strip(s) ==
    LET keep == {i \in 1..Len(s) : s[i] \notin WhiteSpace}
    IN  IF keep = {} THEN <<>>
        ELSE LET lo == CHOOSE i \in keep : \A j \in keep : i <= j
                 hi == CHOOSE i \in keep : \A j \in keep : j <= i
             IN  SubSeq(s, lo, hi)

\* s.startswith(p)
StartsWith(s, p) == Len(s) >= Len(p) /\ SubSeq(s, 1, Len(p)) = p

\* p in s
Contains(s, p) ==
    \E i \in 1..(Len(s) - Len(p) + 1) : SubSeq(s, i, i + Len(p) - 1) = p

\* s.split("\n")
RECURSIVE SplitLines(_)
SplitLines(s) ==
    IF \A i \in 1..Len(s) : s[i] # NL THEN <<s>>
    ELSE LET k == CHOOSE i \in 1..Len(s) :
                      s[i] = NL /\ \A j \in 1..(i - 1) : s[j] # NL
         IN  <<SubSeq(s, 1, k - 1)>> \o SplitLines(SubSeq(s, k + 1, Len(s)))

\* s.replace(p, ""): every occurrence of p removed, left to right
RECURSIVE RemoveAll(_, _)
RemoveAll(s, p) ==
    IF s = <<>> THEN <<>>
    ELSE IF StartsWith(s, p) THEN RemoveAll(SubSeq(s, Len(p) + 1, Len(s)), p)
    ELSE <<s[1]>> \o RemoveAll(Tail(s), p)

\* f"{x}": None is rendered as the text None
Str(x) == IF x = NoneVal THEN <<"None">> ELSE x

\* server.py:195  f"Command: {command}\nExplanation: {explanation}"
FormatAnswer(command, explanation) ==
    CommandTag \o <<" ">> \o Str(command) \o <<NL>>
        \o ExplanationTag \o <<" ">> \o Str(explanation)


\* ------------------------------------------------- exact-match cache lookup
\* server.py:306-315: the command and the explanation read back from a stored
\* assistant turn; of several lines with the same tag the last one wins
ParseCached(cached_response) ==
    LET lines == SplitLines(cached_response)
        cmds == {i \in 1..Len(lines) : StartsWith(lines[i], CommandTag)}
        exps == {i \in 1..Len(lines) :
                    /\ ~StartsWith(lines[i], CommandTag)
                    /\ StartsWith(lines[i], ExplanationTag)}
        last(S) == CHOOSE i \in S : \A j \in S : j <= i
    IN  [command |-> IF cmds = {} THEN <<>>
                     ELSE Strip(RemoveAll(lines[last(cmds)], CommandTag)),
         explanation |-> IF exps = {} THEN <<>>
                         ELSE Strip(RemoveAll(lines[last(exps)], ExplanationTag))]

\* server.py:300: both texts stripped, then lower-cased, then compared
SameQuery(content, query) == Lower(Strip(content)) = Lower(Strip(query))

\* server.py:302-317: the turn after h[i] is an assistant turn that parses to
\* a non-empty command
Parseable(h, i) ==
    /\ h[i + 1].role = "assistant"
    /\ Contains(h[i + 1].content, CommandTag)
    /\ Contains(h[i + 1].content, ExplanationTag)
    /\ ParseCached(h[i + 1].content).command # <<>>

CacheMiss == [tag |-> "miss", command |-> <<>>, explanation |-> <<>>]

\* server.py:299-327: the scan from index i (Python's i - 1) on; .strip() of a
\* None content or of a None query raises AttributeError
RECURSIVE CacheScan(_, _, _)
CacheScan(h, query, i) ==
    IF i > Len(h) - 1 THEN CacheMiss
    ELSE IF h[i].role # "user" THEN CacheScan(h, query, i + 1)
    ELSE IF h[i].content = NoneVal \/ query = NoneVal
         THEN [CacheMiss EXCEPT !.tag = "raise"]
    ELSE IF SameQuery(h[i].content, query) /\ Parseable(h, i)
         THEN LET parsed == ParseCached(h[i + 1].content)
              IN  [tag |-> "hit", command |-> parsed.command,
                   explanation |-> parsed.explanation]
    ELSE CacheScan(h, query, i + 1)

\* a lookup that returns the answer recorded last for the query
CheckLatest(h, query) ==
    LET hits == {i \in 1..(Len(h) - 1) :
                    /\ h[i].role = "user"
                    /\ h[i].content # NoneVal /\ query # NoneVal
                    /\ SameQuery(h[i].content, query) /\ Parseable(h, i)}
    IN  IF hits = {} THEN CacheScan(h, query, 1)
        ELSE LET i == CHOOSE k \in hits : \A j \in hits : j <= k
                 parsed == ParseCached(h[i + 1].content)
             IN  [tag |-> "hit", command |-> parsed.command,
                  explanation |-> parsed.explanation]

\* server.py:293-327  _check_history_cache
CheckHistoryCache(h, query) == CacheScan(h, query, 1)

\* a lookup that is made whatever the flag
LookupAlways(force_fresh) == TRUE

\* server.py:129  if not force_fresh: the lookup is made
LookupWanted(force_fresh) == ~force_fresh

\* ------------------------------------------------------ local tool executor
NoArgs == [k \in {} |-> <<>>]

\* arguments.get(key, default)
Get(arguments, key, default) ==
    IF key \in DOMAIN arguments THEN arguments[key] ELSE default

\* what the machine holds: the directories os.listdir can read and the
\* commands that have a manual page
ExistingDirs == {<<".">>}
ManPages == {<<"l", "s">>}

ToolResult(tag) ==
    [tag |-> tag, is_final_answer |-> FALSE, command |-> <<>>, explanation |-> <<>>]

\* functions.py:85-91: the tools declared to the remote service
DeclaredTools ==
    {"get_current_directory", "list_files", "check_command_exists",
     "suggested_command", "get_man_page"}

\* an executor in which the call of an undeclared tool raises, as a check for
\* a command does
ExecuteDeclared(function_name, arguments) ==
    IF function_name \in DeclaredTools /\ function_name # "check_command_exists"
    THEN [tag |-> "result", is_final_answer |-> function_name = "suggested_command",
          command |-> Get(arguments, "command", NoneVal),
          explanation |-> Get(arguments, "explanation", NoneVal)]
    ELSE ToolResult("raise")

\* functions.py:94-199  execute_function: "result" and "error" are the
\* structured results, "raise" an exception that leaves the function
\* (shutil.which(None) at functions.py:125)
execute_function(function_name, arguments) ==
    CASE function_name = "get_current_directory" -> ToolResult("result")
      [] function_name = "list_files" ->
            IF Get(arguments, "path", <<".">>) \in ExistingDirs \cup {NoneVal}
            THEN ToolResult("result") ELSE ToolResult("error")
      [] function_name = "check_command_exists" ->
            IF Get(arguments, "command", NoneVal) = NoneVal
            THEN ToolResult("raise") ELSE ToolResult("result")
      [] function_name = "get_man_page" ->
            IF Get(arguments, "command", NoneVal) \in ManPages
            THEN ToolResult("result") ELSE ToolResult("error")
      [] function_name = "suggested_command" ->
            [tag |-> "result", is_final_answer |-> TRUE,
             command |-> Get(arguments, "command", NoneVal),
             explanation |-> Get(arguments, "explanation", NoneVal)]
      [] OTHER -> ToolResult("error")


\* ------------------------------------------------ requests and remote replies
\* request.get("message"): NoneVal when the request carries no message
Messages == {<<"l", "s">>, <<" ", "L", "S">>, <<"p", "w", "d">>}

Reply(kind, name, args, text) ==
    [kind |-> kind, name |-> name, args |-> args, text |-> text]

NoReply == Reply("none", "", NoArgs, <<>>)
FailReply == Reply("fail", "", NoArgs, <<>>)
ToolCall(name, args) == Reply("function_call", name, args, <<>>)
TextReply(text) == Reply("text", "", NoArgs, text)

\* non-final tool calls the remote service asks for
ToolCalls ==
    {ToolCall("list_files", [path |-> <<".">>]),
     ToolCall("check_command_exists", NoArgs),
     ToolCall("no_such_tool", NoArgs)}

\* final-answer calls: a one-line answer and one with a two-line explanation
FinalCalls ==
    {ToolCall("suggested_command",
              [command |-> <<"l", "s">>, explanation |-> <<"E">>]),
     ToolCall("suggested_command",
              [command |-> <<"p", "w", "d">>, explanation |-> <<"a", NL, "b">>])}

TextReplies == {TextReply(<<"t">>), TextReply(<<"u">>)}

\* one unit of output of generate_content (server.py:159-171), or its failure
Replies == ToolCalls \cup FinalCalls \cup TextReplies \cup {FailReply}

\* ------------------------------------------------------------------- state
VARIABLES
    history,     \* self.history: the turns, each tagged with the request that appended it
    wk,          \* per connection-handler thread: its position in _handle_ask and its locals
    sent,        \* the response frame the step just taken wrote (server.py:112-113), if any
    events,      \* choices the environment has made so far
    clients,     \* how many clients use the daemon at a time
    lastReset    \* state "never": no reset yet; "clean": no step of an ask handler since
                 \* the last reset, which removed cleared turns; "dirty" otherwise

\* the daemon's processes and files, as the lifecycle manager sees them
VARIABLES
    procs,       \* per pid: the state of the daemon process that got this pid
    pidFile,     \* the pid written in ~/.bashbuddy/daemon.pid, 0 when the file is absent
    sockFile,    \* the pid whose socket ~/.bashbuddy/daemon.sock names, 0 when absent
    mc,          \* per command-line client: its position in the manager's functions
    callers,     \* how many command-line clients act at a time
    calls        \* how many calls of the manager the clients have made

VARIABLES
    fr           \* a connection seen from its receiving side

\* the state of the request handlers
server == <<history, wk, sent, events, clients, lastReset>>

\* the state of the lifecycle manager and of the processes it manages
lifecycle == <<procs, pidFile, sockFile, mc, callers, calls>>

\* the state of a connection's receive loop
framing == <<fr>>

\* what the request handlers leave alone
outside == <<lifecycle, framing>>

vars == <<server, lifecycle, framing>>

\* ------------------------------------------------ lifecycle: bounds and values
\* calls of start_daemon, stop_daemon, get_daemon_status and
\* ensure_daemon_running made during one run
MaxCalls == 2

\* the pids of the daemon processes: one started before the run, and at most
\* one spawned by each call
Pids == 1..(MaxCalls + 1)
\* the command-line clients (each call is one command-line process)
Callers == {1, 2}

\* manager.py:38 and 41  max_retries = 10
MAX_RETRIES == 10
\* manager.py:84  for _ in range(10)
STOP_POLLS == 10

\* a pid no process has got yet
NoProc == [state |-> "none", parent |-> 0, term |-> FALSE]

\* a response of the manager; pid 0: the response carries no pid
Response(status, message, pid) == [status |-> status, message |-> message, pid |-> pid]
NoResult == Response("", "", 0)

\* a client that is in no call; out is what its last call returned, and the
\* other fields describe that call: the process it spawned, the signals it
\* sent, the pings answered ok, what the
\* stop_daemon called by ensure_daemon_running returned, and the call before
Resting ==
    [pc |-> "rest", op |-> "", ret |-> "", attempt |-> 0, pid |-> 0,
     result |-> NoResult, out |-> NoResult,
     spawned |-> 0, signals |-> <<>>, pongs |-> 0,
     stopped |-> NoResult,
     prev |-> [op |-> "", out |-> NoResult, spawned |-> 0]]

\* the lifecycle manager is not in use
LifecycleOff ==
    /\ procs = [p \in Pids |-> NoProc]
    /\ pidFile = 0 /\ sockFile = 0
    /\ mc = [c \in Callers |-> Resting]
    /\ callers = 0 /\ calls = 0

\* -------------------------------------------------------------------- framing
\* characters a message string is made of here
MaxLen == 2

\* the characters: a letter, newline, space, double quote, backslash; and a
\* byte that is no UTF-8
SP == " "
QT == "\""
BS == "\\"
BAD == "xFF"
Chars == {"n", NL, SP, QT, BS}
JsonDigits == {"1", "2"}

Strings(k) == UNION {[1..j -> Chars] : j \in 0..k}

\* JSON values: a request object with a command and a message, a string, a
\* number (its digits)
JsonValue(type, command, message) ==
    [type |-> type, command |-> command, message |-> message]
NoValue == JsonValue("", "", <<>>)
CommandNames == {"ping", "ask"}
Values ==
    {JsonValue("object", c, m) : c \in CommandNames, m \in Strings(MaxLen)}
        \cup {JsonValue("string", "", m) : m \in Strings(MaxLen)}
        \cup {JsonValue("number", "", <<"1">>), JsonValue("number", "", <<"1", "2">>)}

\* a variant of the encoder that writes every character as it is
EscapeRaw(c) == <<c>>

\* json.dumps: a newline inside a string is written \n, a quote \", a
\* backslash \\
EscapeChar(c) ==
    IF c = NL THEN <<BS, "n">>
    ELSE IF c \in {QT, BS} THEN <<BS, c>>
    ELSE <<c>>

RECURSIVE Escape(_)
Escape(s) == IF s = <<>> THEN <<>> ELSE EscapeChar(Head(s)) \o Escape(Tail(s))

Quote(s) == <<QT>> \o Escape(s) \o <<QT>>

\* json.dumps(value): the text; the braces, the keys with their separators and
\* the quoted command name are one symbol each
Dumps(v) ==
    IF v.type = "object"
    THEN <<"{", "command:", v.command, ",message:">> \o Quote(v.message) \o <<"}">>
    ELSE IF v.type = "string" THEN Quote(v.message)
    ELSE v.message

\* b"\n\n"
Terminator == <<NL, NL>>

\* client.py:59, server.py:112  json.dumps(...).encode('utf-8') + b"\n\n"
Encode(v) == Dumps(v) \o Terminator

\* b"\n\n" in data
HasTerminator(d) == \E i \in 1..(Len(d) - 1) : d[i] = NL /\ d[i + 1] = NL

\* data.decode('utf-8') raises UnicodeDecodeError
Undecodable(d) == \E i \in 1..Len(d) : d[i] = BAD

\* the result of a parse
Parsed(ok, value) == [ok |-> ok, value |-> value]
ParseError == Parsed(FALSE, NoValue)
NotParsed == Parsed(FALSE, JsonValue("unparsed", "", <<>>))

\* the scan of a JSON string from position i, past its opening quote, with
\* acc read so far: the string and the position after its closing quote
RECURSIVE Unquote(_, _, _)
Unquote(t, i, acc) ==
    IF i > Len(t) THEN [ok |-> FALSE, value |-> <<>>, next |-> i]
    ELSE IF t[i] = QT THEN [ok |-> TRUE, value |-> acc, next |-> i + 1]
    ELSE IF t[i] = BS
    THEN IF i + 1 > Len(t) THEN [ok |-> FALSE, value |-> <<>>, next |-> i]
         ELSE IF t[i + 1] = "n" THEN Unquote(t, i + 2, Append(acc, NL))
         ELSE IF t[i + 1] \in {QT, BS} THEN Unquote(t, i + 2, Append(acc, t[i + 1]))
         ELSE [ok |-> FALSE, value |-> <<>>, next |-> i]
    ELSE IF t[i] = NL THEN [ok |-> FALSE, value |-> <<>>, next |-> i]
    ELSE Unquote(t, i + 1, Append(acc, t[i]))

\* json.loads(text): the value, or JSONDecodeError
Loads(t) ==
    IF t = <<>> THEN ParseError
    ELSE IF t[1] = "{"
    THEN IF /\ Len(t) >= 7 /\ t[2] = "command:" /\ t[3] \in CommandNames
            /\ t[4] = ",message:" /\ t[5] = QT /\ t[Len(t)] = "}"
         THEN LET u == Unquote(t, 6, <<>>)
              IN  IF u.ok /\ u.next = Len(t)
                  THEN Parsed(TRUE, JsonValue("object", t[3], u.value))
                  ELSE ParseError
         ELSE ParseError
    ELSE IF t[1] = QT
    THEN LET u == Unquote(t, 2, <<>>)
         IN  IF u.ok /\ u.next = Len(t) + 1
             THEN Parsed(TRUE, JsonValue("string", "", u.value))
             ELSE ParseError
    ELSE IF \A i \in 1..Len(t) : t[i] \in JsonDigits
    THEN Parsed(TRUE, JsonValue("number", "", t))
    ELSE ParseError

\* json.loads(data.decode('utf-8').strip())  (server.py:93, client.py:80)
Decoded(d) == IF Undecodable(d) THEN ParseError ELSE Loads(Strip(d))

Prefixes(t) == {SubSeq(t, 1, k) : k \in 0..Len(t)}

\* what a peer sends before it closes its side: the frame of v or a part of
\* it, the frame after a byte that is no UTF-8, a part of the text with the
\* terminator
Wires(v) ==
    Prefixes(Encode(v))
        \cup {<<BAD>> \o Encode(v)}
        \cup {p \o Terminator : p \in Prefixes(Dumps(v))}

\* one connection seen from its receiving side: the server reading a request
\* (server.py:79-94) or the client reading a response (client.py:64-81).
\* wire is what the peer sends, data the receiver's buffer, split whether
\* the buffer came in more than one chunk, handed whether the buffer went
\* into json.loads, outcome what the receiver did in the end; the client is
\* seen from the call of send_command on (client.py:44-90): attempted whether
\* it called connect, error the message of the error response it returned
Receiving(side, value, wire) ==
    [side |-> side, value |-> value, wire |-> wire, data |-> <<>>,
     split |-> FALSE, pc |-> IF side = "client" THEN "call" ELSE "recv",
     handed |-> FALSE, parsed |-> NotParsed, outcome |-> "",
     attempted |-> FALSE, error |-> ""]

\* no connection is looked at
FramingOff ==
    fr = [Receiving("", NoValue, <<>>) EXCEPT !.pc = "off"]

Turn(role, content, rid) == [role |-> role, content |-> content, ask |-> rid]

\* the JSON view of the turns (server.py:338)
Plain(h) == [i \in 1..Len(h) |-> [role |-> h[i].role, content |-> h[i].content]]

\* a response object: keys are the JSON keys it carries
NoResponse ==
    [keys |-> {}, status |-> "", command |-> <<>>, explanation |-> <<>>,
     message |-> <<>>, history |-> <<>>, count |-> 0, history_length |-> 0,
     function_calls |-> <<>>]

\* a handler thread: idle, or inside _handle_ask with its locals, or holding
\* the response of _handle_history; calls, userAppends and assistantAppends
\* count what this ask has done so far; count is the count of the history
\* response, and listed the list it refers to once self.history names
\* another list (rebound)
Idle ==
    [pc |-> "idle", rid |-> 0, message |-> <<>>, force_fresh |-> FALSE,
     contents |-> <<>>, function_history |-> <<>>, iteration |-> 0,
     retry_count |-> 0, part |-> NoReply,
     calls |-> 0, userAppends |-> 0, assistantAppends |-> 0,
     count |-> 0, listed |-> <<>>, rebound |-> FALSE]

\* the frame written for request rid, with what its handler did
Frame(command, me, response) ==
    [rid |-> me.rid, command |-> command, message |-> me.message,
     force_fresh |-> me.force_fresh, response |-> response,
     calls |-> me.calls, userAppends |-> me.userAppends,
     assistantAppends |-> me.assistantAppends, iteration |-> me.iteration,
     retry_count |-> me.retry_count, part |-> me.part,
     recorded |-> me.function_history, rebound |-> me.rebound]

\* no frame was written by the step just taken
NoFrame == Frame("", Idle, NoResponse)

Init ==
    /\ history = <<>>
    /\ wk = [w \in Workers |-> Idle]
    /\ sent = NoFrame
    /\ events = 0
    /\ clients \in Clients
    /\ lastReset = [state |-> "never", cleared |-> 0]
    /\ LifecycleOff
    /\ FramingOff

\* the asks that have a turn in history or a handler at work
KnownAsks ==
    {history[i].ask : i \in 1..Len(history)}
        \cup {wk[w].rid : w \in {v \in Workers : wk[v].pc # "idle"}}

\* server.py:76-99: a connection is accepted and its ask read; the ask is
\* named by the least number that names no other known ask
Accepted ==
    [Idle EXCEPT !.rid = CHOOSE t \in 1..(Cardinality(KnownAsks) + 1) :
                             /\ t \notin KnownAsks
                             /\ \A u \in 1..(t - 1) : u \in KnownAsks]

\* the handler of a request other than ask: it has no locals
Uncounted == Idle

\* server.py:286-291 and 115-117
ErrorResponse(exc) ==
    [NoResponse EXCEPT !.keys = {"status", "message"}, !.status = "error",
                       !.message = <<"Failed to generate response: ", exc>>]

\* a variant whose responses carry a message and no status
MessageOnly(status, message) ==
    [NoResponse EXCEPT !.keys = {"message"}, !.message = message]

\* server.py:101, 107, 109, 332
SimpleResponse(status, message) ==
    [NoResponse EXCEPT !.keys = {"status", "message"}, !.status = status,
                       !.message = message]

\* an acceptor that takes the next connection when no handler is at work
AcceptsAlone(w) ==
    /\ w = 1
    /\ \A v \in Workers : wk[v].pc = "idle"

\* server.py:66-71: accept() hands the connection to a new thread; threads are
\* interchangeable, so the lowest idle one stands for it
Accepts(w) ==
    /\ w <= clients
    /\ wk[w].pc = "idle"
    /\ \A v \in Workers : wk[v].pc = "idle" => w <= v

\* a list that takes new turns at its front
PrependTurn(h, turn) == <<turn>> \o h

\* a list that takes every new turn twice
AppendTwice(h, turn) == Append(Append(h, turn), turn)

\* list.append (server.py:136, 193, 257, 278)
AppendTurn(h, turn) == Append(h, turn)

\* ------------------------------------------------------- the simple handlers
\* server.py:100-101
HandlePing(w) ==
    /\ Accepts(w)
    /\ sent' = Frame("ping", Uncounted, SimpleResponse("ok", <<"pong">>))
    /\ UNCHANGED <<history, wk, events, clients, lastReset>>
    /\ UNCHANGED outside

\* server.py:106-107
HandleStatus(w) ==
    /\ Accepts(w)
    /\ sent' = Frame("status", Uncounted, SimpleResponse("ok", <<"Daemon is running">>))
    /\ UNCHANGED <<history, wk, events, clients, lastReset>>
    /\ UNCHANGED outside

\* server.py:108-109
HandleUnknown(w) ==
    /\ Accepts(w)
    /\ sent' = Frame("bogus", Uncounted,
                     SimpleResponse("error", <<"Unknown command: ", "bogus">>))
    /\ UNCHANGED <<history, wk, events, clients, lastReset>>
    /\ UNCHANGED outside

\* server.py:331  self.history = []: a response of _handle_history that is
\* not sent yet keeps the list h it was built on
Rebound(workers, h) ==
    [w \in Workers |->
        IF workers[w].pc = "dump" /\ ~workers[w].rebound
        THEN [workers[w] EXCEPT !.listed = h, !.rebound = TRUE]
        ELSE workers[w]]

\* a reset that leaves the turns in place
ResetKeepsHistory(h) == h

\* a reset that forgets the oldest turn only
ResetDropsOldest(h) == Tail(h)

\* server.py:331: the history a reset leaves
ResetHistory(h) == <<>>

\* server.py:102-103, 329-332  _handle_reset (the message without the check
\* mark it starts with)
HandleReset(w) ==
    /\ Accepts(w) /\ events < MaxEvents
    /\ history' = ResetHistory(history)
    /\ sent' = Frame("reset", Uncounted,
                     SimpleResponse("ok", <<"Conversation history cleared">>))
    /\ events' = events + 1
    /\ lastReset' = [state |-> "clean", cleared |-> Len(history)]
    /\ wk' = Rebound(wk, history)
    /\ UNCHANGED clients
    /\ UNCHANGED outside

\* server.py:339  len(self.history)
CountOf(h) == Len(h)

\* server.py:112: json.dumps of the response of _handle_history: the list is
\* written as it is now, the count as it was computed
HistoryResponse(h, count) ==
    [NoResponse EXCEPT !.keys = {"status", "history", "count"},
                       !.status = "ok", !.history = Plain(h), !.count = count]

\* server.py:104-105, 334-340  _handle_history: the response refers to the
\* list self.history (no copy is made) and holds its length
HandleHistory(w) ==
    /\ Accepts(w)
    /\ clients = 1 \/ events < MaxEvents
    /\ wk' = [wk EXCEPT ![w] = [Uncounted EXCEPT !.pc = "dump",
                                                 !.count = CountOf(history)]]
    /\ sent' = NoFrame
    /\ events' = IF clients = 1 THEN events ELSE events + 1
    /\ UNCHANGED <<history, clients, lastReset>>
    /\ UNCHANGED outside

\* server.py:112-113: the response of _handle_history is serialised and sent
HistoryDump(w) ==
    /\ wk[w].pc = "dump"
    /\ sent' = Frame("history", wk[w],
                     HistoryResponse(IF wk[w].rebound THEN wk[w].listed ELSE history,
                                     wk[w].count))
    /\ wk' = [wk EXCEPT ![w] = Idle]
    /\ UNCHANGED <<history, events, clients, lastReset>>
    /\ UNCHANGED outside

\* ----------------------------------------------------------- _handle_ask
\* an element of contents: a bare str (or None) for a user turn, a dict else
Item(py, role, part, text, name, args) ==
    [py |-> py, role |-> role, part |-> part, text |-> text,
     name |-> name, args |-> args]

\* server.py:143-144: a user turn goes in as its bare content
UserItem(content) ==
    Item(IF content = NoneVal THEN "none" ELSE "str", "", "", content, "", NoArgs)
\* server.py:145-149 and 236-239
ModelTextItem(text) == Item("dict", "model", "text", text, "", NoArgs)
\* server.py:207-210
CallItem(name, args) == Item("dict", "model", "function_call", <<>>, name, args)
\* server.py:212-220: tag is the executor's result
ResponseItem(name, tag) ==
    Item("dict", "function", "function_response", <<tag>>, name, NoArgs)
\* server.py:242-250
CorrectiveItem ==
    Item("dict", "user", "text",
         <<"CRITICAL: You MUST call the suggested_command() function now.">>,
         "", NoArgs)

\* server.py:140-149
BuildContents(h) ==
    [i \in 1..Len(h) |->
        IF h[i].role = "user" THEN UserItem(h[i].content)
        ELSE ModelTextItem(h[i].content)]

Placeholder == <<"No response generated">>

\* server.py:270-276: the scan of reversed(contents) from element i down;
\* item.get on a bare str or on None raises AttributeError
RECURSIVE LastTextFrom(_, _)
LastTextFrom(contents, i) ==
    IF i = 0 THEN [tag |-> "ok", text |-> Placeholder]
    ELSE IF contents[i].py # "dict" THEN [tag |-> "raise", text |-> <<>>]
    ELSE IF contents[i].role = "model" /\ contents[i].part = "text"
         THEN [tag |-> "ok", text |-> contents[i].text]
    ELSE LastTextFrom(contents, i - 1)

LastText(contents) == LastTextFrom(contents, Len(contents))

Digits == <<"0", "1", "2", "3", "4", "5", "6", "7", "8", "9">>

\* str(n) for n >= 0
RECURSIVE NumStr(_)
NumStr(n) ==
    IF n < 10 THEN <<Digits[n + 1]>>
    ELSE NumStr(n \div 10) \o <<Digits[(n % 10) + 1]>>

WarningHead == "[Warning: Exceeded function call limit after "

\* server.py:281
WarningMessage(n, last_text) ==
    <<WarningHead>> \o NumStr(n) \o <<" function calls]", NL, NL>> \o last_text

\* server.py:318-325
CachedResponse(found, h) ==
    [NoResponse EXCEPT
        !.keys = {"status", "type", "command", "explanation", "cached",
                  "history_length"},
        !.status = "ok", !.command = found.command,
        !.explanation = found.explanation, !.history_length = Len(h)]

\* a structured answer that leaves the calls out
CommandOnly(result, h, function_history) ==
    [NoResponse EXCEPT
        !.keys = {"status", "command", "explanation", "history_length"},
        !.status = "ok", !.command = result.command,
        !.explanation = result.explanation, !.history_length = Len(h)]

\* server.py:198-204
CommandResponse(result, h, function_history) ==
    [NoResponse EXCEPT
        !.keys = {"status", "command", "explanation", "history_length",
                  "function_calls"},
        !.status = "ok", !.command = result.command,
        !.explanation = result.explanation, !.history_length = Len(h),
        !.function_calls = function_history]

\* server.py:259-264 and 279-284
MessageResponse(message, h, function_history) ==
    [NoResponse EXCEPT
        !.keys = {"status", "message", "history_length", "function_calls"},
        !.status = "ok", !.message = message, !.history_length = Len(h),
        !.function_calls = function_history]

\* a cache hit that records the user turn
OnCacheHitRecorded(h, turn) == Append(h, turn)

\* server.py:131-133: the history a cache hit leaves (the user turn is not recorded)
OnCacheHit(h, turn) == h

\* a handler that takes its last turn back when the ask fails
OnErrorDropLast(h) == SubSeq(h, 1, Len(h) - 1)

\* server.py:286-291: the except branch returns and leaves history as it is
OnError(h) == h

\* an ask handler has taken a step
AskStep ==
    IF lastReset.state = "clean" THEN [state |-> "dirty", cleared |-> 0]
    ELSE lastReset

\* server.py:96-99, 128-133: the request is read and the cache consulted
AskCheck(w, message, force_fresh) ==
    /\ Accepts(w)
    /\ LET found == IF LookupWanted(force_fresh)
                    THEN CheckHistoryCache(history, message) ELSE CacheMiss
           me == [Accepted EXCEPT !.message = message,
                                  !.force_fresh = force_fresh]
           h == OnCacheHit(history, Turn("user", message, me.rid))
       IN  CASE found.tag = "hit" ->
                  /\ sent' = Frame("ask",
                                   [me EXCEPT !.userAppends = Len(h) - Len(history)],
                                   CachedResponse(found, h))
                  /\ history' = h
                  /\ UNCHANGED <<wk, events>>
             [] found.tag = "raise" ->
                  /\ sent' = Frame("ask", me, ErrorResponse("AttributeError"))
                  /\ UNCHANGED <<history, wk, events>>
             [] OTHER ->
                  /\ events < MaxEvents
                  /\ wk' = [wk EXCEPT ![w] = [me EXCEPT !.pc = "append"]]
                  /\ sent' = NoFrame
                  /\ events' = events + 1
                  /\ UNCHANGED history
    /\ lastReset' = AskStep
    /\ UNCHANGED clients
    /\ UNCHANGED outside

\* server.py:136
AskAppendUser(w) ==
    /\ wk[w].pc = "append"
    /\ history' = AppendTurn(history, Turn("user", wk[w].message, wk[w].rid))
    /\ wk' = [wk EXCEPT ![w].pc = "build",
                        ![w].userAppends = @ + (Len(history') - Len(history))]
    /\ sent' = NoFrame
    /\ lastReset' = AskStep
    /\ UNCHANGED <<events, clients>>
    /\ UNCHANGED outside

\* server.py:138-167: the context is built and the first remote call issued
AskBuildContents(w) ==
    /\ wk[w].pc = "build"
    /\ wk' = [wk EXCEPT ![w].pc = "waiting",
                        ![w].contents = BuildContents(history),
                        ![w].calls = 1]
    /\ sent' = NoFrame
    /\ lastReset' = AskStep
    /\ UNCHANGED <<history, events, clients>>
    /\ UNCHANGED outside

\* a loop that answers every plain text with the corrective turn
RetryAlways(retry_count) == TRUE

\* server.py:231  if retry_count == 0: the one retry is still to be had
RetryLeft(retry_count) == retry_count = 0

\* a loop of one more round
HasNextEleven(iteration) == iteration < MAX_ITERATIONS

\* server.py:157  for iteration in range(max_iterations): another round follows
\* the round numbered iteration
HasNext(iteration) == iteration + 1 < MAX_ITERATIONS

\* a record of the calls made before the final-answer call only
RecordUnlessFinal(function_history, name, args) ==
    IF name = "suggested_command" THEN function_history
    ELSE Append(function_history, [name |-> name, args |-> args])

\* server.py:182-185: the call is recorded before it is executed
Record(function_history, name, args) ==
    Append(function_history, [name |-> name, args |-> args])

\* a reply that is no new choice of the environment
Free(w, r) == clients = 1 /\ r = wk[w].part

\* server.py:169-284: one reply r of the remote service handled, up to the
\* next remote call or to the return of _handle_ask
RemoteReply(w, r) ==
    /\ wk[w].pc = "waiting"
    /\ Free(w, r) \/ events < MaxEvents
    /\ events' = IF Free(w, r) THEN events ELSE events + 1
    /\ LET fh == IF r.kind = "function_call"
                 THEN Record(wk[w].function_history, r.name, r.args)
                 ELSE wk[w].function_history
           me == [wk[w] EXCEPT !.part = r, !.function_history = fh]
           result == IF r.kind = "function_call"
                     THEN execute_function(r.name, r.args) ELSE ToolResult("")
           fail == r.kind = "fail" \/ result.tag = "raise"
           final == ~fail /\ result.is_final_answer
           accept == r.kind = "text" /\ ~RetryLeft(me.retry_count)
           \* server.py:206-222 and 235-252: the loop goes on
           contents == IF r.kind = "text"
                       THEN me.contents \o <<ModelTextItem(r.text), CorrectiveItem>>
                       ELSE me.contents \o <<CallItem(r.name, r.args),
                                             ResponseItem(r.name, result.tag)>>
           retried == IF r.kind = "text" THEN me.retry_count + 1 ELSE me.retry_count
           last == LastText(contents)
           turn(content) == Turn("assistant", content, me.rid)
           return(response, h) ==
               /\ sent' = Frame("ask",
                                [me EXCEPT !.assistantAppends =
                                               @ + (Len(h) - Len(history))],
                                response)
               /\ wk' = [wk EXCEPT ![w] = Idle]
               /\ history' = h
       IN  IF fail
           THEN return(ErrorResponse(IF r.kind = "fail" THEN "RemoteError"
                                     ELSE "TypeError"), OnError(history))
           ELSE IF final
           THEN LET h == AppendTurn(history,
                             turn(FormatAnswer(result.command, result.explanation)))
                IN  return(CommandResponse(result, h, fh), h)
           ELSE IF accept
           THEN LET h == AppendTurn(history, turn(r.text))
                IN  return(MessageResponse(r.text, h, fh), h)
           ELSE IF HasNext(me.iteration)
           THEN /\ wk' = [wk EXCEPT ![w] =
                            [me EXCEPT !.contents = contents,
                                       !.retry_count = retried,
                                       !.iteration = @ + 1,
                                       !.calls = @ + 1]]
                /\ sent' = NoFrame
                /\ UNCHANGED history
           \* server.py:266-284: the loop is exhausted
           ELSE IF last.tag = "raise"
           THEN return(ErrorResponse("AttributeError"), OnError(history))
           ELSE LET h == AppendTurn(history, turn(last.text))
                IN  return(MessageResponse(WarningMessage(Len(fh), last.text), h, fh), h)
    /\ lastReset' = AskStep
    /\ UNCHANGED clients
    /\ UNCHANGED outside

Next ==
    \/ \E w \in Workers : HandlePing(w)
    \/ \E w \in Workers : HandleStatus(w)
    \/ \E w \in Workers : HandleUnknown(w)
    \/ \E w \in Workers : HandleReset(w)
    \/ \E w \in Workers : HandleHistory(w)
    \/ \E w \in Workers : HistoryDump(w)
    \/ \E w \in Workers, m \in Messages, f \in BOOLEAN : AskCheck(w, m, f)
    \/ \E w \in Workers : AskAppendUser(w)
    \/ \E w \in Workers : AskBuildContents(w)
    \/ \E w \in Workers, r \in Replies : RemoteReply(w, r)

Spec == Init /\ [][Next]_vars

\* ------------------------------------ inputs outside what the protocol expects
\* server.py:97  request.get("message"): None when the ask carries no message
MaybeMessages == {NoneVal, <<"l", "s">>}

\* server.py:225-229: the remote service may answer with any text, also with
\* one that reads like a recorded answer
AnswerLikeText == TextReply(FormatAnswer(<<"l", "s">>, <<"E">>))
LooseReplies == Replies \cup {AnswerLikeText}

\* the handlers when asks may come without a message and replies with any text
LooseNext ==
    \/ \E w \in Workers : HandlePing(w)
    \/ \E w \in Workers : HandleStatus(w)
    \/ \E w \in Workers : HandleUnknown(w)
    \/ \E w \in Workers : HandleReset(w)
    \/ \E w \in Workers : HandleHistory(w)
    \/ \E w \in Workers : HistoryDump(w)
    \/ \E w \in Workers, m \in MaybeMessages, f \in BOOLEAN : AskCheck(w, m, f)
    \/ \E w \in Workers : AskAppendUser(w)
    \/ \E w \in Workers : AskBuildContents(w)
    \/ \E w \in Workers, r \in LooseReplies : RemoteReply(w, r)

LooseSpec == Init /\ [][LooseNext]_vars

\* ------------------------------------------------- the daemon after a failed ask
\* the locals with which ask rid for message m ended when its first remote
\* call failed (server.py:136, 159, 286-291)
FailedFirstCall(rid, m, force_fresh) ==
    [Idle EXCEPT !.rid = rid, !.message = m, !.force_fresh = force_fresh,
                 !.calls = 1, !.userAppends = 1, !.part = FailReply]

\* the answer the final-answer call f leaves in history
Answer(f) == FormatAnswer(f.args.command, f.args.explanation)

\* histories in which an ask has just failed: the failed ask was the first
\* one, or it was a force_fresh ask made after an answered ask for the same query
FailedHistories ==
    {<<Turn("user", <<"l", "s">>, 1)>>}
      \cup {<<Turn("user", <<"l", "s">>, 1), Turn("assistant", Answer(f), 1),
              Turn("user", <<"l", "s">>, 2)>> :
                  f \in {c \in FinalCalls : c.args.command = <<"l", "s">>}}

\* the daemon right after it has answered the failed ask with status error
RetryInit ==
    /\ history \in FailedHistories
    /\ LET last == history[Len(history)]
       IN  sent = Frame("ask", FailedFirstCall(last.ask, last.content, Len(history) > 1),
                        ErrorResponse("RemoteError"))
    /\ wk = [w \in Workers |-> Idle]
    /\ events = 0
    /\ clients \in Clients
    /\ lastReset = [state |-> "never", cleared |-> 0]
    /\ LifecycleOff
    /\ FramingOff

RetrySpec == RetryInit /\ [][Next]_vars

\* ------------------------------------------------------ lifecycle: processes
\* the pid still names a process (a zombie is one: its parent has not waited)
Existing == {"booting", "unlinked", "bound", "serving", "zombie"}
\* the process runs
Living == {"booting", "unlinked", "bound", "serving"}

Live(p) == procs[p].state \in Living
LiveDaemons == {p \in Pids : Live(p)}

\* a process ends: it stays a zombie while the command-line process that
\* spawned it (subprocess.Popen, manager.py:24) is there and has not waited
Die(ps, p) ==
    [ps EXCEPT ![p].state = IF ps[p].parent # 0 THEN "zombie" ELSE "dead",
               ![p].term = FALSE]

\* os.kill(pid, sig) raises ProcessLookupError
KillRaises(ps, p) == p = 0 \/ ps[p].state \notin Existing

\* os.kill(pid, signal.SIGTERM): before server.py:56-57 has installed the
\* handler the process ends at once; after, _handle_shutdown is to run
Terminate(ps, p) ==
    IF ps[p].state = "serving" THEN [ps EXCEPT ![p].term = TRUE]
    ELSE IF ps[p].state \in Living THEN Die(ps, p)
    ELSE ps

\* os.kill(pid, signal.SIGKILL)
ForceKill(ps, p) == IF ps[p].state \in Living THEN Die(ps, p) ELSE ps

\* a command-line process exits: init adopts its children and reaps its zombies
Orphan(ps, c) ==
    [p \in Pids |->
        IF ps[p].parent # c THEN ps[p]
        ELSE IF ps[p].state = "zombie" THEN [ps[p] EXCEPT !.state = "dead", !.parent = 0]
        ELSE [ps[p] EXCEPT !.parent = 0]]

\* a variant whose probe finds no daemon
NeverRunning == FALSE

\* client.py:23-41  is_daemon_running: the PID file is there and os.kill(pid, 0)
\* finds the process
is_daemon_running == pidFile # 0 /\ procs[pidFile].state \in Existing

\* client.py:37-41: a probe that fails removes the PID file
AfterProbe == IF is_daemon_running THEN pidFile ELSE 0

\* client.py:44-90  send_command("ping"): answered ok by the daemon whose
\* socket the socket file names, once it accepts connections
PingOk == sockFile # 0 /\ procs[sockFile].state = "serving"

\* the connection is made (listen, server.py:53) but not accepted yet: the
\* client waits in recv (client.py:67)
PingWaits == sockFile # 0 /\ procs[sockFile].state = "bound"

\* ------------------------------------------------- lifecycle: daemon process
\* server.py:35-38: load_api_key or the client construction fails, the process exits
DaemonFail(p) ==
    /\ procs[p].state = "booting"
    /\ procs' = Die(procs, p)
    /\ UNCHANGED <<pidFile, sockFile, mc, callers, calls>>
    /\ UNCHANGED <<server, framing>>

\* server.py:46-48: an old socket file is removed
DaemonUnlink(p) ==
    /\ procs[p].state = "booting"
    /\ procs' = [procs EXCEPT ![p].state = "unlinked"]
    /\ sockFile' = 0
    /\ UNCHANGED <<pidFile, mc, callers, calls>>
    /\ UNCHANGED <<server, framing>>

\* server.py:51-53: bind and listen; bind raises OSError (address in use) when
\* the path exists again, and the process exits
DaemonBind(p) ==
    /\ procs[p].state = "unlinked"
    /\ IF sockFile = 0
       THEN /\ procs' = [procs EXCEPT ![p].state = "bound"]
            /\ sockFile' = p
       ELSE /\ procs' = Die(procs, p)
            /\ UNCHANGED sockFile
    /\ UNCHANGED <<pidFile, mc, callers, calls>>
    /\ UNCHANGED <<server, framing>>

\* server.py:55-64: the signal handlers are installed, the accept loop runs
DaemonServe(p) ==
    /\ procs[p].state = "bound"
    /\ procs' = [procs EXCEPT ![p].state = "serving"]
    /\ UNCHANGED <<pidFile, sockFile, mc, callers, calls>>
    /\ UNCHANGED <<server, framing>>

\* server.py:342-350  _handle_shutdown: the listening socket is closed, the
\* socket file removed if one is there, the process exits
DaemonShutdown(p) ==
    /\ procs[p].state = "serving" /\ procs[p].term
    /\ procs' = Die(procs, p)
    /\ sockFile' = 0
    /\ UNCHANGED <<pidFile, mc, callers, calls>>
    /\ UNCHANGED <<server, framing>>

\* a termination signal reaches daemon p from outside the manager (kill from a
\* shell, Ctrl+C on a daemon run in the foreground, a system shutdown):
\* server.py:56-57 installs _handle_shutdown for SIGINT and SIGTERM
SignalArrives(p) ==
    /\ Live(p) /\ ~procs[p].term
    /\ procs' = Terminate(procs, p)
    /\ UNCHANGED <<pidFile, sockFile, mc, callers, calls>>
    /\ UNCHANGED <<server, framing>>

\* ------------------------------------------------- lifecycle: manager calls
\* the calls a command-line client makes
Ops == {"start", "stop", "status", "ensure"}

\* the function returns response r: to the client's caller (the locals are
\* gone then), or to ensure_daemon_running at the place it was called from
Done(me, r) ==
    IF me.ret = "top"
    THEN [me EXCEPT !.pc = "rest", !.out = r, !.ret = "",
                    !.result = NoResult, !.pid = 0, !.attempt = 0]
    ELSE [me EXCEPT !.pc = me.ret, !.result = r, !.ret = "top"]

\* client c has taken a step that leaves it as me and the processes as ps;
\* when its call has returned, its command-line process exits
Move(c, me, ps) ==
    /\ mc' = [mc EXCEPT ![c] = me]
    /\ procs' = IF me.pc = "rest" THEN Orphan(ps, c) ELSE ps

\* the rounds of a poll made so far, after one more round that found nothing
\* new.  A client that acts alone is followed round by round; while two
\* clients act at a time, the rounds that find nothing new are taken
\* together, up to the last of the poll's limit rounds (what the other client
\* and the daemons do before a round is a step taken before it)
Rounds(attempt, limit) == IF callers = 1 THEN attempt + 1 ELSE limit

\* a variant that sends SIGKILL whatever signal is asked for
SignalledKill(me, sig) == [me EXCEPT !.signals = Append(@, <<"SIGKILL", me.pid>>)]

\* a signal the client has sent
Signalled(me, sig) == [me EXCEPT !.signals = Append(@, <<sig, me.pid>>)]

\* where each function begins
Entry(op) ==
    CASE op = "start" -> "start_probe"
      [] op = "stop" -> "stop_probe"
      [] op = "status" -> "status_probe"
      [] op = "ensure" -> "ensure_probe"

\* a client starts one of the manager's functions.  One client makes its calls
\* one after the other; two clients that act at a time make one call each
\* (two command lines entered at once), and as the clients are alike the
\* first call is made by client 1
CallManager(c, op) ==
    /\ c <= callers /\ mc[c].pc = "rest" /\ calls < MaxCalls
    /\ callers > 1 => mc[c].op = ""
    /\ c > 1 => mc[1].op # ""
    /\ calls' = calls + 1
    /\ mc' = [mc EXCEPT ![c] =
                [Resting EXCEPT !.pc = Entry(op), !.op = op, !.ret = "top",
                                !.prev = [op |-> mc[c].op, out |-> mc[c].out,
                                          spawned |-> mc[c].spawned]]]
    /\ UNCHANGED <<procs, pidFile, sockFile, callers>>
    /\ UNCHANGED <<server, framing>>

\* manager.py:13-14
StartProbe(c) ==
    /\ mc[c].pc = "start_probe"
    /\ pidFile' = AfterProbe
    /\ Move(c, IF is_daemon_running
               THEN Done(mc[c], Response("error", "Daemon is already running", 0))
               ELSE [mc[c] EXCEPT !.pc = "start_spawn"], procs)
    /\ UNCHANGED <<sockFile, callers, calls>>
    /\ UNCHANGED <<server, framing>>

\* manager.py:24-29  subprocess.Popen: the new process gets the least unused pid
StartSpawn(c) ==
    /\ mc[c].pc = "start_spawn"
    /\ \E p \in Pids :
          /\ procs[p].state = "none"
          /\ \A q \in 1..(p - 1) : procs[q].state # "none"
          /\ Move(c, [mc[c] EXCEPT !.pc = "start_write", !.pid = p, !.spawned = p],
                  [procs EXCEPT ![p] = [state |-> "booting", parent |-> c,
                                        term |-> FALSE]])
    /\ UNCHANGED <<pidFile, sockFile, callers, calls>>
    /\ UNCHANGED <<server, framing>>

\* manager.py:32-34: the PID file is written
StartWrite(c) ==
    /\ mc[c].pc = "start_write"
    /\ pidFile' = mc[c].pid
    /\ Move(c, [mc[c] EXCEPT !.pc = "start_poll", !.attempt = 0], procs)
    /\ UNCHANGED <<sockFile, callers, calls>>
    /\ UNCHANGED <<server, framing>>

\* manager.py:41-51: one round of the start-up poll
StartPoll(c) ==
    /\ mc[c].pc = "start_poll" /\ mc[c].attempt < MAX_RETRIES
    /\ ~(is_daemon_running /\ PingWaits)
    /\ pidFile' = AfterProbe
    /\ Move(c, IF ~is_daemon_running
               THEN [mc[c] EXCEPT !.pc = "start_after"]
               ELSE IF PingOk
               THEN Done([mc[c] EXCEPT !.pongs = @ + 1, !.attempt = @ + 1],
                         Response("ok", "Daemon started successfully", mc[c].pid))
               ELSE [mc[c] EXCEPT !.attempt = Rounds(@, MAX_RETRIES),
                                  !.pc = IF Rounds(mc[c].attempt, MAX_RETRIES) = MAX_RETRIES
                                         THEN "start_after" ELSE "start_poll"],
            procs)
    /\ UNCHANGED <<sockFile, callers, calls>>
    /\ UNCHANGED <<server, framing>>

\* manager.py:53-63
StartAfter(c) ==
    /\ mc[c].pc = "start_after"
    /\ pidFile' = AfterProbe
    /\ Move(c, Done(mc[c],
                    IF is_daemon_running
                    THEN Response("error", "Daemon started but not responding (timeout)", 0)
                    ELSE Response("error", "Failed to start daemon", 0)), procs)
    /\ UNCHANGED <<sockFile, callers, calls>>
    /\ UNCHANGED <<server, framing>>

StopFailed == Response("error", "Failed to stop daemon", 0)

\* manager.py:71-72
StopProbe(c) ==
    /\ mc[c].pc = "stop_probe"
    /\ pidFile' = AfterProbe
    /\ Move(c, IF is_daemon_running
               THEN [mc[c] EXCEPT !.pc = "stop_read"]
               ELSE Done(mc[c], Response("error", "Daemon is not running", 0)), procs)
    /\ UNCHANGED <<sockFile, callers, calls>>
    /\ UNCHANGED <<server, framing>>

\* manager.py:77-78: open() raises when the PID file is gone (caught at 104)
StopRead(c) ==
    /\ mc[c].pc = "stop_read"
    /\ Move(c, IF pidFile = 0 THEN Done(mc[c], StopFailed)
               ELSE [mc[c] EXCEPT !.pc = "stop_term", !.pid = pidFile], procs)
    /\ UNCHANGED <<pidFile, sockFile, callers, calls>>
    /\ UNCHANGED <<server, framing>>

\* manager.py:81  os.kill(pid, signal.SIGTERM)
StopTerm(c) ==
    /\ mc[c].pc = "stop_term"
    /\ IF KillRaises(procs, mc[c].pid)
       THEN Move(c, Done(mc[c], StopFailed), procs)
       ELSE Move(c, [Signalled(mc[c], "SIGTERM") EXCEPT !.pc = "stop_poll",
                                                        !.attempt = 0],
                 Terminate(procs, mc[c].pid))
    /\ UNCHANGED <<pidFile, sockFile, callers, calls>>
    /\ UNCHANGED <<server, framing>>

\* manager.py:84-87: one round of the exit poll
StopPoll(c) ==
    /\ mc[c].pc = "stop_poll" /\ mc[c].attempt < STOP_POLLS
    /\ pidFile' = AfterProbe
    /\ Move(c, IF ~is_daemon_running
               THEN [mc[c] EXCEPT !.pc = "stop_force", !.attempt = @ + 1]
               ELSE [mc[c] EXCEPT !.attempt = Rounds(@, STOP_POLLS),
                                  !.pc = IF Rounds(mc[c].attempt, STOP_POLLS) = STOP_POLLS
                                         THEN "stop_force" ELSE "stop_poll"],
            procs)
    /\ UNCHANGED <<sockFile, callers, calls>>
    /\ UNCHANGED <<server, framing>>

\* manager.py:89-92: the forced kill, if the probe still finds a daemon
StopForce(c) ==
    /\ mc[c].pc = "stop_force"
    /\ pidFile' = AfterProbe
    /\ IF ~is_daemon_running
       THEN Move(c, [mc[c] EXCEPT !.pc = "stop_rm_pid"], procs)
       ELSE IF KillRaises(procs, mc[c].pid)
       THEN Move(c, Done(mc[c], StopFailed), procs)
       ELSE Move(c, [Signalled(mc[c], "SIGKILL") EXCEPT !.pc = "stop_rm_pid"],
                 ForceKill(procs, mc[c].pid))
    /\ UNCHANGED <<sockFile, callers, calls>>
    /\ UNCHANGED <<server, framing>>

\* manager.py:95-96
StopRmPid(c) ==
    /\ mc[c].pc = "stop_rm_pid"
    /\ pidFile' = 0
    /\ Move(c, [mc[c] EXCEPT !.pc = "stop_rm_sock"], procs)
    /\ UNCHANGED <<sockFile, callers, calls>>
    /\ UNCHANGED <<server, framing>>

\* manager.py:98-102
StopRmSock(c) ==
    /\ mc[c].pc = "stop_rm_sock"
    /\ sockFile' = 0
    /\ Move(c, Done(mc[c], Response("ok", "Daemon stopped", 0)), procs)
    /\ UNCHANGED <<pidFile, callers, calls>>
    /\ UNCHANGED <<server, framing>>

\* manager.py:110-114
StatusProbe(c) ==
    /\ mc[c].pc = "status_probe"
    /\ pidFile' = AfterProbe
    /\ Move(c, IF is_daemon_running
               THEN [mc[c] EXCEPT !.pc = "status_ping"]
               ELSE Done(mc[c], Response("stopped", "Daemon is not running", 0)), procs)
    /\ UNCHANGED <<sockFile, callers, calls>>
    /\ UNCHANGED <<server, framing>>

\* manager.py:117-119 and 129-133
StatusPing(c) ==
    /\ mc[c].pc = "status_ping" /\ ~PingWaits
    /\ Move(c, IF PingOk
               THEN [mc[c] EXCEPT !.pc = "status_read", !.pongs = @ + 1]
               ELSE Done(mc[c], Response("error",
                                         "Daemon process exists but not responding", 0)),
            procs)
    /\ UNCHANGED <<pidFile, sockFile, callers, calls>>
    /\ UNCHANGED <<server, framing>>

\* a variant that reports running without the pid
RunningNoPid(pid) == Response("running", "Daemon is running", 0)

\* manager.py:124-128
Running(pid) == Response("running", "Daemon is running", pid)

\* manager.py:120-128: open() raises when the PID file is gone, and nothing
\* in get_daemon_status catches it
StatusRead(c) ==
    /\ mc[c].pc = "status_read"
    /\ Move(c, Done(mc[c], IF pidFile = 0
                           THEN Response("raise", "FileNotFoundError", 0)
                           ELSE Running(pidFile)),
            procs)
    /\ UNCHANGED <<pidFile, sockFile, callers, calls>>
    /\ UNCHANGED <<server, framing>>

\* a variant that returns True whatever start_daemon reported
EnsuredAlways(b) == Response("True", "", 0)

\* what ensure_daemon_running returns
Ensured(b) == Response(IF b THEN "True" ELSE "False", "", 0)

\* manager.py:142 and 153: no daemon is found, start_daemon is called
EnsureProbe(c) ==
    /\ mc[c].pc = "ensure_probe"
    /\ pidFile' = AfterProbe
    /\ Move(c, IF is_daemon_running
               THEN [mc[c] EXCEPT !.pc = "ensure_ping"]
               ELSE [mc[c] EXCEPT !.pc = "start_probe", !.ret = "ensure_result"],
            procs)
    /\ UNCHANGED <<sockFile, callers, calls>>
    /\ UNCHANGED <<server, framing>>

\* a variant in which ensure_daemon_running takes no answer for ok
EnsureNeverAnswered == FALSE

\* manager.py:145-147  response.get("status") == "ok"
EnsureAnswered == PingOk

\* manager.py:144-149: the daemon answers, or stop_daemon is called
EnsurePing(c) ==
    /\ mc[c].pc = "ensure_ping" /\ ~PingWaits
    /\ Move(c, IF EnsureAnswered
               THEN Done([mc[c] EXCEPT !.pongs = @ + 1], Ensured(TRUE))
               ELSE [mc[c] EXCEPT !.pc = "stop_probe", !.ret = "ensure_start"],
            procs)
    /\ UNCHANGED <<pidFile, sockFile, callers, calls>>
    /\ UNCHANGED <<server, framing>>

\* manager.py:150-153: after stop_daemon, start_daemon is called
EnsureStart(c) ==
    /\ mc[c].pc = "ensure_start"
    /\ Move(c, [mc[c] EXCEPT !.pc = "start_probe", !.ret = "ensure_result",
                             !.stopped = mc[c].result], procs)
    /\ UNCHANGED <<pidFile, sockFile, callers, calls>>
    /\ UNCHANGED <<server, framing>>

\* manager.py:156-160 and 165
EnsureResult(c) ==
    /\ mc[c].pc = "ensure_result"
    /\ Move(c, IF mc[c].result.status = "ok" THEN Done(mc[c], Ensured(TRUE))
               ELSE IF mc[c].result.message = "Daemon is already running"
               THEN [mc[c] EXCEPT !.pc = "ensure_verify"]
               ELSE Done(mc[c], Ensured(FALSE)), procs)
    /\ UNCHANGED <<pidFile, sockFile, callers, calls>>
    /\ UNCHANGED <<server, framing>>

\* manager.py:161-165
EnsureVerify(c) ==
    /\ mc[c].pc = "ensure_verify"
    /\ ~(is_daemon_running /\ PingWaits)
    /\ pidFile' = AfterProbe
    /\ Move(c, IF is_daemon_running /\ PingOk
               THEN Done([mc[c] EXCEPT !.pongs = @ + 1], Ensured(TRUE))
               ELSE Done(mc[c], Ensured(FALSE)), procs)
    /\ UNCHANGED <<sockFile, callers, calls>>
    /\ UNCHANGED <<server, framing>>

\* a daemon spawned by an earlier start_daemon, whose command-line process
\* has exited, is starting up
Started ==
    [p \in Pids |-> IF p = 1 THEN [state |-> "booting", parent |-> 0, term |-> FALSE]
                    ELSE NoProc]

\* no daemon has been started yet, or one was started just before
LifecycleInit ==
    /\ history = <<>>
    /\ wk = [w \in Workers |-> Idle]
    /\ sent = NoFrame
    /\ events = 0
    /\ clients = 0
    /\ lastReset = [state |-> "never", cleared |-> 0]
    /\ \/ procs = [p \in Pids |-> NoProc] /\ pidFile = 0
       \/ procs = Started /\ pidFile = 1
    /\ sockFile = 0
    /\ mc = [c \in Callers |-> Resting]
    /\ callers \in Callers
    /\ calls = 0
    /\ FramingOff

LifecycleNext ==
    \/ \E p \in Pids : DaemonFail(p)
    \/ \E p \in Pids : DaemonUnlink(p)
    \/ \E p \in Pids : DaemonBind(p)
    \/ \E p \in Pids : DaemonServe(p)
    \/ \E p \in Pids : DaemonShutdown(p)
    \/ \E c \in Callers, op \in Ops : CallManager(c, op)
    \/ \E c \in Callers : StartProbe(c)
    \/ \E c \in Callers : StartSpawn(c)
    \/ \E c \in Callers : StartWrite(c)
    \/ \E c \in Callers : StartPoll(c)
    \/ \E c \in Callers : StartAfter(c)
    \/ \E c \in Callers : StopProbe(c)
    \/ \E c \in Callers : StopRead(c)
    \/ \E c \in Callers : StopTerm(c)
    \/ \E c \in Callers : StopPoll(c)
    \/ \E c \in Callers : StopForce(c)
    \/ \E c \in Callers : StopRmPid(c)
    \/ \E c \in Callers : StopRmSock(c)
    \/ \E c \in Callers : StatusProbe(c)
    \/ \E c \in Callers : StatusPing(c)
    \/ \E c \in Callers : StatusRead(c)
    \/ \E c \in Callers : EnsureProbe(c)
    \/ \E c \in Callers : EnsurePing(c)
    \/ \E c \in Callers : EnsureStart(c)
    \/ \E c \in Callers : EnsureResult(c)
    \/ \E c \in Callers : EnsureVerify(c)

LifecycleSpec == LifecycleInit /\ [][LifecycleNext]_vars

\* the manager and the daemons when signals also come from outside
SignalNext ==
    \/ LifecycleNext
    \/ \E p \in Pids : SignalArrives(p)

SignalSpec == LifecycleInit /\ [][SignalNext]_vars

\* ---------------------------------------------------------- framing: receive
\* server.py:82-87, client.py:67-72: recv returns the next n bytes; the loop
\* ends when the buffer holds the terminator
FrameRecv(n) ==
    /\ fr.pc = "recv"
    /\ n \in 1..(Len(fr.wire) - Len(fr.data))
    /\ LET data == fr.data \o SubSeq(fr.wire, Len(fr.data) + 1, Len(fr.data) + n)
       IN  fr' = [fr EXCEPT !.data = data, !.split = fr.data # <<>>,
                            !.pc = IF HasTerminator(data) THEN "loaded" ELSE "recv"]
    /\ UNCHANGED <<server, lifecycle>>

\* server.py:83-84, client.py:68-69: the peer has closed, recv returns b"" and
\* the loop ends
FrameClosed ==
    /\ fr.pc = "recv"
    /\ Len(fr.data) = Len(fr.wire)
    /\ fr' = [fr EXCEPT !.pc = "loaded"]
    /\ UNCHANGED <<server, lifecycle>>

\* a variant that answers only the requests it can dispatch
SilentOnError(p) ==
    IF p.ok /\ p.value.type = "object" THEN "response frame" ELSE "nothing written"

\* server.py:93-121: a request object is dispatched and its response written;
\* UnicodeDecodeError, JSONDecodeError and the AttributeError of
\* request.get on a value that is no object are answered with the error frame
ServerOutcome(p) ==
    IF p.ok /\ p.value.type = "object" THEN "response frame" ELSE "error frame"

\* server.py:89-121: nothing received: the handler returns and the connection
\* is closed; else the buffer is parsed, the request dispatched and its
\* response written, and any exception answered with an error frame
ServerHandles ==
    /\ fr.pc = "loaded" /\ fr.side = "server"
    /\ fr' = IF fr.data = <<>>
             THEN [fr EXCEPT !.pc = "closed", !.outcome = "nothing written"]
             ELSE LET p == Decoded(fr.data)
                  IN  [fr EXCEPT !.pc = "closed", !.handed = TRUE, !.parsed = p,
                                 !.outcome = ServerOutcome(p)]
    /\ UNCHANGED <<server, lifecycle>>

\* client.py:49, 78, 84-90: the message of the error response, by what went
\* wrong: the socket file is absent, no data came, or the exception raised
ErrorMessage(kind) ==
    CASE kind = "absent" -> "Daemon not running. Start it with: bashbuddy start"
      [] kind = "no data" ->
            "Daemon closed connection (possibly crashed). Try: bb stop && bb start"
      [] kind = "socket.timeout" ->
            "Request timed out (API may be slow or rate limited)"
      [] kind = "ConnectionRefusedError" -> "Could not connect to daemon"
      [] kind = "BrokenPipeError" ->
            "Connection broken (daemon may have crashed). Try restarting: bb stop && bb start"
      [] OTHER -> "Communication error: "

\* what the calls inside the try of send_command can raise
ConnectErrors == {"ConnectionRefusedError", "FileNotFoundError"}
SendErrors == {"BrokenPipeError"}
RecvErrors == {"socket.timeout", "ConnectionResetError"}

ErrorReturned(kind) == [outcome |-> "error returned", error |-> ErrorMessage(kind)]

\* a client that handles the three exceptions it names and no other
ExceptNamed(exc) ==
    IF exc \in {"socket.timeout", "ConnectionRefusedError", "BrokenPipeError"}
    THEN ErrorReturned(exc)
    ELSE [outcome |-> "raised", error |-> ""]

\* client.py:83-90: the except clauses, the last of which takes every Exception
Except(exc) == ErrorReturned(exc)

\* send_command has returned or raised after its receive loop had ended
Ended(result) ==
    [fr EXCEPT !.pc = "closed", !.outcome = result.outcome, !.error = result.error]

\* send_command has returned or raised before its receive loop had ended
Failed(result) ==
    [fr EXCEPT !.pc = "failed", !.outcome = result.outcome, !.error = result.error]

\* client.py:46-49: the socket file is looked for; when it is absent the
\* error response is returned at once
ClientCall(present) ==
    /\ fr.pc = "call"
    /\ fr' = IF present THEN [fr EXCEPT !.pc = "connect"]
             ELSE Failed(ErrorReturned("absent"))
    /\ UNCHANGED <<server, lifecycle>>

\* client.py:53-55: the socket is made and connected
ClientConnect(result) ==
    /\ fr.pc = "connect"
    /\ fr' = IF result = "ok" THEN [fr EXCEPT !.pc = "send", !.attempted = TRUE]
             ELSE [Failed(Except(result)) EXCEPT !.attempted = TRUE]
    /\ UNCHANGED <<server, lifecycle>>

\* client.py:58-62: the request is written
ClientSend(result) ==
    /\ fr.pc = "send"
    /\ fr' = IF result = "ok" THEN [fr EXCEPT !.pc = "recv"]
             ELSE Failed(Except(result))
    /\ UNCHANGED <<server, lifecycle>>

\* client.py:54, 67: recv raises: no byte within 60 seconds, or the
\* connection was reset
ClientRecvFails(exc) ==
    /\ fr.pc = "recv" /\ fr.side = "client"
    /\ fr' = Failed(Except(exc))
    /\ UNCHANGED <<server, lifecycle>>

\* client.py:74-90: nothing received: an error response is returned; else the
\* buffer is parsed and the value returned, and any exception turned into an
\* error response
ClientReturns ==
    /\ fr.pc = "loaded" /\ fr.side = "client"
    /\ fr' = IF fr.data = <<>>
             THEN Ended(ErrorReturned("no data"))
             ELSE LET p == Decoded(fr.data)
                  IN  [Ended(IF p.ok THEN [outcome |-> "value returned", error |-> ""]
                             ELSE Except("ValueError"))
                          EXCEPT !.handed = TRUE, !.parsed = p]
    /\ UNCHANGED <<server, lifecycle>>

\* a connection is made, and the peer sends what it sends
FrameInit ==
    /\ history = <<>>
    /\ wk = [w \in Workers |-> Idle]
    /\ sent = NoFrame
    /\ events = 0
    /\ clients = 0
    /\ lastReset = [state |-> "never", cleared |-> 0]
    /\ LifecycleOff
    /\ \E side \in {"server", "client"}, v \in Values :
          \E wire \in Wires(v) : fr = Receiving(side, v, wire)

FrameNext ==
    \/ \E n \in 1..Len(fr.wire) : FrameRecv(n)
    \/ FrameClosed
    \/ ServerHandles
    \/ \E present \in BOOLEAN : ClientCall(present)
    \/ \E result \in {"ok"} \cup ConnectErrors : ClientConnect(result)
    \/ \E result \in {"ok"} \cup SendErrors : ClientSend(result)
    \/ \E exc \in RecvErrors : ClientRecvFails(exc)
    \/ ClientReturns

FrameSpec == FrameInit /\ [][FrameNext]_vars

\* ------------------------------------------------------------ the properties
\* the step just taken wrote the frame of an ask that went to the remote service
AskFrame == sent.command = "ask" /\ sent.calls >= 1

\* handler w took a reply and issued the next remote call
Continued(w) ==
    /\ wk[w].pc = "waiting" /\ wk'[w].pc = "waiting"
    /\ wk'[w].calls = wk[w].calls + 1

\* handler w took a reply and returned; sent' is the frame it wrote
Returned(w) == wk[w].pc = "waiting" /\ wk'[w].pc = "idle"

\* every reply the ask of the frame got was a tool call other than the
\* final-answer call, and every one of these tools ran to its end
OnlyToolCalls ==
    /\ AskFrame
    /\ Len(sent.recorded) = sent.calls
    /\ \A i \in 1..Len(sent.recorded) :
          /\ sent.recorded[i].name # "suggested_command"
          /\ execute_function(sent.recorded[i].name,
                              sent.recorded[i].args).tag # "raise"

\* C1: an ask whose every remote call returns a non-final tool call makes
\* exactly 10 remote calls and ends with status ok and a message that starts
\* with the iteration-limit warning, not with status error.
C1_AllToolCallsEndWithWarning ==
    OnlyToolCalls =>
        /\ sent.calls = MAX_ITERATIONS
        /\ sent.response.status = "ok"
        /\ "message" \in sent.response.keys
        /\ Head(sent.response.message) = WarningHead

\* the number of corrective turns in a context
Correctives(contents) ==
    Cardinality({i \in 1..Len(contents) : contents[i] = CorrectiveItem})

\* C2 (as amended): the first plain-text reply of an ask appends the text and
\* one corrective turn to the context and is followed by another remote call,
\* unless it is the 10th reply, which ends the ask with the iteration-limit
\* response carrying that text; a second plain-text reply is returned as the
\* message with status ok and recorded as the assistant turn with no further
\* remote call; no context ever holds more than one corrective turn.
C2_TextRetriedOnce ==
    [][\A w \in Workers :
        /\ (Continued(w) /\ wk'[w].part.kind = "text") =>
              /\ wk[w].retry_count = 0 /\ wk'[w].retry_count = 1
              /\ wk'[w].contents =
                    wk[w].contents \o <<ModelTextItem(wk'[w].part.text),
                                        CorrectiveItem>>
              /\ history' = history
        /\ (Returned(w) /\ sent'.part.kind = "text") =>
              /\ sent'.response.status = "ok"
              /\ sent'.calls = wk[w].calls
              /\ history' = Append(history,
                                   Turn("assistant", sent'.part.text, wk[w].rid))
              /\ IF wk[w].retry_count = 1
                 THEN sent'.response.message = sent'.part.text
                 ELSE /\ wk[w].retry_count = 0
                      /\ wk[w].calls = MAX_ITERATIONS
                      /\ sent'.response.message =
                            WarningMessage(Len(sent'.recorded), sent'.part.text)
        /\ Correctives(wk'[w].contents) = wk'[w].retry_count
        /\ wk'[w].retry_count <= 1
    ]_vars

\* a second plain text was accepted as the answer
C2_Witness ==
    /\ AskFrame /\ sent.part.kind = "text" /\ sent.retry_count = 1
    /\ sent.response.message = sent.part.text
    /\ history # <<>> /\ history[Len(history)].content = sent.part.text

\* C2 as stated: the first plain-text reply of an ask is always followed by
\* another remote call.
C2_FirstTextAlwaysRetried ==
    [][\A w \in Workers :
        (/\ wk[w].pc = "waiting" /\ wk[w].retry_count = 0
         /\ \/ Continued(w) /\ wk'[w].part.kind = "text"
            \/ Returned(w) /\ sent'.part.kind = "text")
        => Continued(w)
    ]_vars

\* the turn a final-answer call f leaves in history
Recorded(f) == FormatAnswer(f.args.command, f.args.explanation)

\* C3: when history holds a user turn equal to the query after trimming and
\* lower-casing, followed at once by an assistant turn encoding command C and
\* explanation E, an ask for the query without force_fresh that is answered
\* from the cache returns command C and explanation E.
C3_CacheReturnsRecordedAnswer ==
    (sent.command = "ask" /\ "cached" \in sent.response.keys) =>
        \A i \in 1..(Len(history) - 1) : \A f \in FinalCalls :
            (/\ history[i].role = "user"
             /\ SameQuery(history[i].content, sent.message)
             /\ history[i + 1].role = "assistant"
             /\ history[i + 1].content = Recorded(f))
            => /\ sent.response.command = f.args.command
               /\ sent.response.explanation = f.args.explanation

\* the step just taken answered an ask from the cache
CachedFrame == sent.command = "ask" /\ "cached" \in sent.response.keys

\* C4: an ask answered from the cache makes no remote call and leaves history
\* unchanged: neither a user turn nor an assistant turn is appended.
C4_CacheHitLeavesHistory ==
    [][(sent'.command = "ask" /\ "cached" \in sent'.response.keys) =>
          /\ history' = history
          /\ wk' = wk
          /\ sent'.calls = 0
          /\ sent'.userAppends = 0 /\ sent'.assistantAppends = 0
    ]_vars

\* an ask was answered from the cache out of a history that holds its pair
C4_Witness ==
    /\ CachedFrame /\ sent.response.status = "ok"
    /\ Len(history) >= 2 /\ sent.response.history_length = Len(history)

\* C5: an ask with force_fresh true is never answered with a response carrying
\* cached, also when history holds a matching pair: it appends its user turn
\* and contacts the remote service.
C5_ForceFreshNeverCached ==
    /\ (sent.command = "ask" /\ sent.force_fresh) =>
          /\ "cached" \notin sent.response.keys
          /\ sent.userAppends = 1
          /\ sent.calls >= 1
    /\ \A w \in Workers :
          (wk[w].force_fresh /\ wk[w].pc = "waiting") =>
              wk[w].userAppends = 1 /\ wk[w].calls >= 1

\* an ask with force_fresh waits for the remote service although history holds
\* an answer to its query
C5_Witness ==
    \E w \in Workers :
        /\ wk[w].force_fresh /\ wk[w].pc = "waiting" /\ wk[w].calls = 1
        /\ CheckHistoryCache(history, wk[w].message).tag = "hit"
        /\ history[Len(history)] = Turn("user", wk[w].message, wk[w].rid)

\* C6: after a reset has completed, and with no ask handled since, a history
\* request made after that reset returns the empty sequence and count 0,
\* whatever asks came before the reset.
C6_HistoryEmptyAfterReset ==
    (sent.command = "history" /\ lastReset.state = "clean" /\ ~sent.rebound) =>
        /\ sent.response.status = "ok"
        /\ sent.response.history = <<>>
        /\ sent.response.count = 0

\* a history request is answered after a reset that removed a completed ask
C6_Witness ==
    /\ sent.command = "history" /\ ~sent.rebound
    /\ lastReset.state = "clean" /\ lastReset.cleared >= 2

\* the entry of function_calls for list_files(path=".")
ListFilesCall == [name |-> "list_files", args |-> [path |-> <<".">>]]

\* the remote service asked for list_files(path=".") and then gave the final answer
ListThenFinal ==
    /\ AskFrame /\ sent.calls = 2
    /\ sent.recorded # <<>>
    /\ Head(sent.recorded) = ListFilesCall
    /\ sent.part \in FinalCalls

\* C7 (as amended): for an ask in which the remote service calls
\* list_files(path=".") and then suggested_command(command, explanation), the
\* response has status ok, that command and explanation, and function_calls
\* equal to [list_files(path="."), suggested_command(command, explanation)]:
\* the final-answer call is recorded as the last entry.
C7_FunctionCallsListFinalToo ==
    ListThenFinal =>
        /\ sent.response.status = "ok"
        /\ sent.response.command = sent.part.args.command
        /\ sent.response.explanation = sent.part.args.explanation
        /\ sent.response.function_calls =
              <<ListFilesCall,
                [name |-> "suggested_command", args |-> sent.part.args]>>

C7_Witness == ListThenFinal /\ sent.response.status = "ok"

\* C7 as stated: function_calls is exactly [list_files(path=".")] and does not
\* hold the final-answer call.
C7_FunctionCallsOmitFinal ==
    ListThenFinal =>
        /\ sent.response.status = "ok"
        /\ sent.response.function_calls = <<ListFilesCall>>

\* C8 (as amended): an ask that completes with status ok without the cache
\* has appended exactly one user turn and exactly one assistant turn; an ask
\* answered from the cache has appended none; an ask that went to the remote
\* service and ended with status error has appended its user turn and no
\* assistant turn.
C8_TurnsAppendedPerAsk ==
    sent.command = "ask" =>
        /\ (sent.response.status = "ok" /\ ~CachedFrame) =>
              sent.userAppends = 1 /\ sent.assistantAppends = 1
        /\ CachedFrame =>
              sent.userAppends = 0 /\ sent.assistantAppends = 0
        /\ (sent.response.status = "error" /\ AskFrame) =>
              sent.userAppends = 1 /\ sent.assistantAppends = 0

\* with one client at a time, an ask ended with status error and left its
\* user turn as the last turn of history
C8_Witness ==
    /\ clients = 1
    /\ AskFrame /\ sent.response.status = "error"
    /\ sent.userAppends = 1 /\ sent.assistantAppends = 0
    /\ history # <<>>
    /\ history[Len(history)] = Turn("user", sent.message, sent.rid)

\* every user turn of history is followed by the assistant turn of its ask
Paired(h) ==
    \A i \in 1..Len(h) :
        h[i].role = "user" =>
            /\ i < Len(h)
            /\ h[i + 1].role = "assistant" /\ h[i + 1].ask = h[i].ask

\* C8 as stated: every ask that completes with status ok has added one user
\* and one assistant turn, and while no ask is being handled no user turn is
\* in history without its assistant turn.
C8_EveryOkAskAddsPair ==
    /\ (sent.command = "ask" /\ sent.response.status = "ok") =>
          sent.userAppends = 1 /\ sent.assistantAppends = 1
    /\ (clients = 1 /\ \A w \in Workers : wk[w].pc = "idle") => Paired(history)

\* C9: in every step, under any interleaving of the connection handlers,
\* history is unchanged, extended by one turn at its end, or emptied; it is
\* emptied only by the reset command, and no turn in it is changed, moved or
\* removed on its own.
C9_HistoryAppendOnly ==
    [][\/ history' = history
       \/ /\ Len(history') = Len(history) + 1
          /\ SubSeq(history', 1, Len(history)) = history
       \/ /\ history' = <<>>
          /\ sent'.command = "reset"
    ]_vars

\* a reset emptied a history that held turns while another handler waited
\* for the remote service
C9_Witness ==
    /\ sent.command = "reset" /\ history = <<>>
    /\ lastReset.state = "clean" /\ lastReset.cleared >= 1
    /\ \E w \in Workers : wk[w].pc = "waiting"

\* C10: when two asks are handled concurrently their appends never interleave:
\* as long as no reset was made, every assistant turn of history comes
\* immediately after the user turn of the same ask.
C10_AppendsNeverInterleave ==
    lastReset.state = "never" =>
        \A i \in 1..Len(history) :
            history[i].role = "assistant" =>
                /\ i > 1
                /\ history[i - 1].role = "user"
                /\ history[i - 1].ask = history[i].ask

\* ------------------------------------------------- properties of the lifecycle
\* C11 as stated: at any time at most one daemon process is live, and the
\* socket file is never taken from a live daemon that serves on it by another
\* daemon; in particular when two clients call start_daemon or
\* ensure_daemon_running at a time while no daemon runs.
C11_AtMostOneLiveDaemon ==
    /\ Cardinality(LiveDaemons) <= 1
    /\ \A p \in Pids : procs[p].state = "serving" => sockFile \in {0, p}

\* client 1, acting alone, has returned from a call of op that followed a
\* call of before
After(before, op) ==
    /\ callers = 1 /\ mc[1].pc = "rest"
    /\ mc[1].op = op /\ mc[1].prev.op = before

\* C12 as stated: of two calls of ensure_daemon_running in succession both
\* report success, the second spawns no process and signals none, and one
\* daemon process is live afterwards.
C12_BothEnsureSucceed ==
    After("ensure", "ensure") =>
        /\ mc[1].prev.out = Ensured(TRUE) /\ mc[1].out = Ensured(TRUE)
        /\ mc[1].spawned = 0 /\ mc[1].signals = <<>>
        /\ Cardinality(LiveDaemons) = 1

\* C12: when a call of ensure_daemon_running has reported success, a second
\* call in succession reports success too, spawns no process and signals
\* none, and exactly one daemon process is live afterwards.
C12_EnsureTwiceAfterSuccess ==
    (After("ensure", "ensure") /\ mc[1].prev.out = Ensured(TRUE)) =>
        /\ mc[1].out = Ensured(TRUE)
        /\ mc[1].spawned = 0 /\ mc[1].signals = <<>>
        /\ Cardinality(LiveDaemons) = 1

\* the first call spawned the daemon, the second found it
C12_Witness ==
    /\ After("ensure", "ensure")
    /\ mc[1].prev.out = Ensured(TRUE) /\ mc[1].prev.spawned # 0
    /\ mc[1].out = Ensured(TRUE)

\* C13: for one client making its calls in succession, get_daemon_status
\* called after start_daemon returned ok reports running with the pid of the
\* daemon that start_daemon spawned, and called after stop_daemon returned ok
\* it reports stopped.
C13_StatusAfterStartAndStop ==
    /\ (After("start", "status") /\ mc[1].prev.out.status = "ok") =>
          /\ mc[1].prev.spawned # 0
          /\ mc[1].out = Running(mc[1].prev.spawned)
          /\ mc[1].out.pid = mc[1].prev.out.pid
    /\ (After("stop", "status") /\ mc[1].prev.out.status = "ok") =>
          mc[1].out.status = "stopped"

\* status has been asked after a start that succeeded
C13_Witness ==
    /\ After("start", "status") /\ mc[1].prev.out.status = "ok"
    /\ mc[1].out.status = "running" /\ mc[1].out.pid = mc[1].prev.spawned

AlreadyRunning == Response("error", "Daemon is already running", 0)

\* the PID file names a process that exists
Detected == pidFile # 0 /\ procs[pidFile].state \in Existing

\* C16: when start_daemon is entered while the PID file names a process that
\* exists, it returns the already-running error at once and changes nothing:
\* no process is spawned or changed, and the PID file and the socket file
\* stay as they are.
C16_StartWhileRunning ==
    [][\A c \in Callers :
          (mc[c].pc = "start_probe" /\ mc'[c] # mc[c] /\ Detected) =>
              /\ mc'[c].pc = IF mc[c].ret = "top" THEN "rest" ELSE mc[c].ret
              /\ AlreadyRunning = IF mc[c].ret = "top" THEN mc'[c].out
                                  ELSE mc'[c].result
              /\ mc'[c].spawned = mc[c].spawned
              /\ procs' = procs /\ pidFile' = pidFile /\ sockFile' = sockFile]_vars

\* start_daemon has returned the already-running error beside a live daemon
C16_Witness ==
    \E c \in Callers :
        /\ mc[c].pc = "rest" /\ mc[c].op = "start"
        /\ mc[c].out = AlreadyRunning /\ mc[c].spawned = 0
        /\ pidFile # 0 /\ Live(pidFile)

\* what the function client c was in has returned (to its caller, or to
\* ensure_daemon_running), when the step just taken left it
Handed(c) == IF mc[c].ret = "top" THEN mc'[c].out ELSE mc'[c].result

\* client c has left the function it was in by the step just taken
Left(c) == mc'[c].pc = IF mc[c].ret = "top" THEN "rest" ELSE mc[c].ret

NotRunning == Response("error", "Daemon is not running", 0)
Stopped == Response("ok", "Daemon stopped", 0)

\* stop_daemon's probe finds no daemon: the error is returned, no process and
\* no socket file is touched, no signal is sent
StopWithoutDaemon(c) ==
    (mc[c].pc = "stop_probe" /\ mc'[c] # mc[c] /\ ~Detected) =>
        /\ Left(c) /\ Handed(c) = NotRunning
        /\ mc'[c].signals = mc[c].signals
        /\ procs' = procs /\ sockFile' = sockFile

\* the signals a client has sent: SIGTERM, then at most one SIGKILL to the
\* same process; and the exit poll has made at most STOP_POLLS rounds
GracefulFirst(c) ==
    /\ Len(mc[c].signals) <= 2
    /\ Len(mc[c].signals) >= 1 => mc[c].signals[1] = <<"SIGTERM", mc[c].signals[1][2]>>
    /\ Len(mc[c].signals) = 2 => mc[c].signals[2] = <<"SIGKILL", mc[c].signals[1][2]>>
    /\ mc[c].pc \in {"stop_poll", "stop_force"} => mc[c].attempt <= STOP_POLLS

\* the forced kill is sent after the last round of the poll to a process
\* that still runs
KillAfterPoll(c) ==
    (Len(mc'[c].signals) = 2 /\ Len(mc[c].signals) = 1) =>
        /\ mc[c].pc = "stop_force" /\ mc[c].attempt = STOP_POLLS
        /\ Live(mc[c].pid)

\* stop_daemon has returned ok: the process it signalled does not run, and
\* the PID file and the socket file are gone
StoppedClean(c) ==
    (mc[c].pc = "rest" /\ mc[c].op = "stop" /\ mc[c].out = Stopped) =>
        /\ Len(mc[c].signals) >= 1 /\ ~Live(mc[c].signals[1][2])
        /\ pidFile = 0 /\ sockFile = 0

StopSteps == {"stop_probe", "stop_read", "stop_term", "stop_poll", "stop_force",
              "stop_rm_pid", "stop_rm_sock"}

\* ensure_daemon_running finds the daemon answering: True is returned and
\* nothing is changed
EnsureNoOp(c) ==
    (mc[c].pc = "ensure_ping" /\ mc'[c] # mc[c] /\ PingOk) =>
        /\ mc'[c].pc = "rest" /\ mc'[c].out = Ensured(TRUE)
        /\ mc'[c].spawned = 0 /\ mc'[c].signals = <<>>
        /\ procs' = procs /\ pidFile' = pidFile /\ sockFile' = sockFile

\* the process exists and does not answer: stop_daemon is entered, and
\* start_daemon when stop_daemon has returned
EnsureRestarts(c) ==
    /\ (mc[c].pc = "ensure_ping" /\ mc'[c] # mc[c] /\ ~PingOk) =>
          /\ mc'[c].pc = "stop_probe" /\ mc'[c].ret = "ensure_start"
          /\ mc'[c].spawned = 0
    /\ (mc[c].ret = "ensure_start" /\ mc'[c] # mc[c]) =>
          \/ mc'[c].pc \in StopSteps /\ mc'[c].ret = "ensure_start"
             /\ mc'[c].spawned = 0
          \/ mc'[c].pc = "ensure_start"
    /\ (mc[c].pc = "ensure_start" /\ mc'[c] # mc[c]) =>
          mc'[c].pc = "start_probe" /\ mc'[c].ret = "ensure_result"

\* no daemon is found: start_daemon is entered without a signal being sent
EnsureStarts(c) ==
    (mc[c].pc = "ensure_probe" /\ mc'[c] # mc[c]) =>
        IF Detected THEN mc'[c].pc = "ensure_ping"
        ELSE /\ mc'[c].pc = "start_probe" /\ mc'[c].ret = "ensure_result"
             /\ mc'[c].signals = <<>>

\* True is returned only by a call during which a ping was answered ok
EnsureTrueAfterPong(c) ==
    (mc[c].pc = "rest" /\ mc[c].op = "ensure" /\ mc[c].out = Ensured(TRUE)) =>
        mc[c].pongs >= 1

\* C18: ensure_daemon_running returns True and changes nothing when the
\* daemon is found and answers ping; when the process is found and does not
\* answer it calls stop_daemon and then start_daemon; when no daemon is found
\* it calls start_daemon; and it returns True only if a ping was answered ok
\* during the call.
C18_EnsureBranches ==
    [][\A c \in Callers :
          /\ EnsureNoOp(c) /\ EnsureRestarts(c) /\ EnsureStarts(c)
          /\ EnsureTrueAfterPong(c)']_vars

\* ensure_daemon_running found a daemon that did not answer, signalled it,
\* spawned another one and returned True
C18_Witness ==
    \E c \in Callers :
        /\ mc[c].pc = "rest" /\ mc[c].op = "ensure" /\ mc[c].out = Ensured(TRUE)
        /\ mc[c].signals # <<>> /\ mc[c].stopped = Stopped
        /\ mc[c].spawned # 0 /\ mc[c].pongs >= 1

\* ------------------------------------------------ properties of the dispatch
\* the commands _handle_request knows (server.py:96-107)
Commands == {"ask", "ping", "reset", "history", "status"}

\* C20: every frame the server writes carries status ok or error; a request
\* whose command is none of ask, reset, history, ping, status is answered
\* with status error and leaves history as it is; ping and status are
\* answered with status ok and a message and leave history as it is.
C20_StatusAndDispatch ==
    [][sent'.command # "" =>
          /\ "status" \in sent'.response.keys
          /\ sent'.response.status \in {"ok", "error"}
          /\ sent'.command \notin Commands =>
                /\ sent'.response.status = "error"
                /\ history' = history
          /\ sent'.command \in {"ping", "status"} =>
                /\ sent'.response.status = "ok"
                /\ "message" \in sent'.response.keys
                /\ sent'.response.message # <<>>
                /\ history' = history]_vars

\* an unknown command has been answered while history holds turns
C20_Witness ==
    /\ sent.command = "bogus" /\ sent.response.status = "error"
    /\ Len(history) > 0

\* ---------------------------------------------------- properties of framing
\* C14: when the peer has sent the frame of a value (its JSON text and the
\* terminator), the receiver, whatever chunks the bytes came in, has read all
\* of it, handed it to the parser and got a value equal to the one encoded.
C14_RoundTrip ==
    (fr.pc = "closed" /\ fr.wire = Encode(fr.value)) =>
        /\ fr.data = fr.wire /\ fr.handed
        /\ fr.parsed = Parsed(TRUE, fr.value)

\* a request whose message is two newlines came in several chunks and was
\* decoded
C14_Witness ==
    /\ fr.pc = "closed" /\ fr.wire = Encode(fr.value) /\ fr.split
    /\ fr.value.type = "object" /\ fr.value.message = <<NL, NL>>
    /\ fr.parsed = Parsed(TRUE, fr.value)

\* C15 as stated: the receive loops hand the buffer to the JSON parser only
\* when it holds the terminator; a buffer left by a peer that closed before
\* the terminator is never parsed.
C15_ParsedOnlyAfterTerminator == fr.handed => HasTerminator(fr.data)

\* C19: the server writes an error frame to every connection on which it
\* received bytes that cannot be decoded or parsed or are no request object,
\* and closes no connection on which it received a byte without having
\* written a response frame or an error frame.
C19_AnsweredUnlessEmpty ==
    (fr.side = "server" /\ fr.pc = "closed" /\ fr.data # <<>>) =>
        /\ fr.outcome \in {"response frame", "error frame"}
        /\ ~(fr.parsed.ok /\ fr.parsed.value.type = "object") =>
              fr.outcome = "error frame"

\* a request that is a JSON string, not an object, got the error frame
C19_Witness ==
    /\ fr.side = "server" /\ fr.pc = "closed"
    /\ fr.parsed.ok /\ fr.parsed.value.type = "string"
    /\ fr.outcome = "error frame"

\* C19 as stated: the server writes an error frame to every connection whose
\* request cannot be decoded, parsed or is no object, and closes no
\* connection without having written a response frame or tried to.
C19_EveryConnectionAnswered ==
    (fr.side = "server" /\ fr.pc = "closed") =>
        /\ fr.outcome \in {"response frame", "error frame"}
        /\ ~(fr.parsed.ok /\ fr.parsed.value.type = "object") =>
              fr.outcome = "error frame"

\* ------------------------------------------------ properties of the handlers
\* the step just taken wrote the frame of a history request
HistoryFrame == sent'.command = "history"

\* C21 as stated: the frame of a history request holds the turns in insertion
\* order and a count equal to their number, and handling the request never
\* changes history.
C21_HistoryWithItsCount ==
    [][/\ HistoryFrame =>
             /\ sent'.response.status = "ok"
             /\ sent'.response.count = Len(sent'.response.history)
       /\ (HistoryFrame \/ \E w \in Workers : wk'[w].pc = "dump" /\ wk[w].pc = "idle")
             => history' = history]_vars

\* argument mappings the remote service can send: keys missing, null or set
ArgMaps ==
    {NoArgs, [command |-> NoneVal], [command |-> <<"l", "s">>],
     [path |-> NoneVal], [path |-> <<".">>], [path |-> <<"x">>]}

\* the step just taken ended an ask on the reply to a call of a tool other
\* than the final-answer tool, with rounds of the loop left
ToolEndedAsk ==
    /\ sent'.command = "ask"
    /\ sent'.part.kind = "function_call"
    /\ sent'.part.name # "suggested_command"
    /\ HasNext(sent'.iteration)

\* C22 as stated: the executor returns a structured result for every declared
\* tool and every argument mapping, missing and null arguments included, and
\* no ask ends with status error on the reply to a tool call
C22_ToolFailuresStayData ==
    [][/\ \A name \in DeclaredTools, arguments \in ArgMaps :
              execute_function(name, arguments).tag \in {"result", "error"}
       /\ ToolEndedAsk => sent'.response.status # "error"]_vars

\* the calls of a tool that was not declared
UndeclaredCalls == {c \in ToolCalls : c.name \notin DeclaredTools}

\* function_history with the call r recorded
WithCall(me, r) == Append(me.function_history, [name |-> r.name, args |-> r.args])

\* the loop went on after the reply r: the call and its result are in the
\* context and the next remote call is issued
WentOn(w, r, tag) ==
    /\ sent' = NoFrame
    /\ history' = history
    /\ wk'[w].pc = "waiting"
    /\ wk'[w].function_history = WithCall(wk[w], r)
    /\ wk'[w].contents =
           wk[w].contents \o <<CallItem(r.name, r.args), ResponseItem(r.name, tag)>>
    /\ wk'[w].iteration = wk[w].iteration + 1
    /\ wk'[w].calls = wk[w].calls + 1

\* C23 as stated: the reply that calls an undeclared tool gets an error
\* result, is recorded, goes into the context with its result, and the loop
\* proceeds to the next iteration
C23_UndeclaredAlwaysGoesOn ==
    [][\A w \in Workers, r \in UndeclaredCalls :
          RemoteReply(w, r) =>
              /\ execute_function(r.name, r.args).tag = "error"
              /\ WentOn(w, r, "error")]_vars

\* C23 amended: the same, unless the call answers the 10th remote call of the
\* ask: then it is still recorded, no further remote call is made and the ask
\* ends as an exhausted loop does
C23_UndeclaredGoesOn ==
    [][\A w \in Workers, r \in UndeclaredCalls :
          RemoteReply(w, r) =>
              /\ execute_function(r.name, r.args).tag = "error"
              /\ IF HasNext(wk[w].iteration)
                 THEN WentOn(w, r, "error")
                 ELSE /\ sent'.command = "ask"
                      /\ sent'.rid = wk[w].rid
                      /\ sent'.calls = MAX_ITERATIONS
                      /\ sent'.recorded = WithCall(wk[w], r)
                      /\ wk'[w].pc = "idle"]_vars

\* an ask went on to its next remote call after the call of an undeclared
\* tool, and later ended with a final answer that lists that call
C23_Witness ==
    /\ sent.command = "ask"
    /\ sent.response.status = "ok"
    /\ "command" \in sent.response.keys
    /\ \E i \in 1..Len(sent.recorded) : sent.recorded[i].name \notin DeclaredTools

\* the step just taken answered an ask that had reached the remote service
\* with status error
ErrorFrame == AskFrame /\ sent.response.status = "error"

\* turn k of history is the user turn of an ask that ended without an
\* assistant turn
FailedTurn(k) ==
    /\ history[k].role = "user"
    /\ \A j \in 1..Len(history) :
           history[j].ask = history[k].ask => history[j].role = "user"
    /\ \A w \in Workers : wk[w].pc # "idle" => wk[w].rid # history[k].ask

\* the step just taken answered an ask without force_fresh for the query of
\* the failed ask whose user turn is turn k
RetryFrame(k) ==
    /\ sent.command = "ask" /\ ~sent.force_fresh
    /\ history[k].ask # sent.rid
    /\ FailedTurn(k)
    /\ SameQuery(history[k].content, sent.message)

\* turns i and i + 1 are the user turn and the answer of one ask for query
CachedPair(i, query) ==
    /\ history[i].role = "user"
    /\ SameQuery(history[i].content, query)
    /\ Parseable(history, i)

\* the failed ask answers once, with status error, its user turn recorded and
\* no assistant turn; with one client at a time that user turn is the last turn
FailedAskLeavesUserTurn ==
    ErrorFrame =>
        /\ sent.userAppends = 1 /\ sent.assistantAppends = 0
        /\ \A w \in Workers : wk[w].rid # sent.rid
        /\ clients = 1 =>
              /\ history # <<>>
              /\ history[Len(history)] = Turn("user", sent.message, sent.rid)

\* the ask of RetryFrame(k) is the first one made after the failed ask
FirstRetryFrame(k) ==
    /\ RetryFrame(k)
    /\ \A j \in (k + 1)..Len(history) : history[j].ask = sent.rid

\* C24 as stated: the failed ask yields one status-error response and leaves
\* its user turn without an assistant turn; the next identical ask without
\* force_fresh is not served from the cache and contacts the remote service
C24_RetryNeverCached ==
    /\ FailedAskLeavesUserTurn
    /\ \A k \in 1..Len(history) :
           FirstRetryFrame(k) => ~CachedFrame /\ sent.calls >= 1

\* C24 amended: the same, except that a later identical ask is served from
\* the cache when history holds an equal user turn followed at once by an
\* answer that encodes a command; with one client at a time the user turn of
\* the failed ask is never that turn, as no assistant turn follows it. An ask
\* not served from the cache contacts the remote service.
C24_RetryNotCachedFromFailedAsk ==
    /\ FailedAskLeavesUserTurn
    /\ CachedFrame =>
           \E i \in 1..(Len(history) - 1) : CachedPair(i, sent.message)
    /\ \A k \in 1..Len(history) :
           /\ (clients = 1 /\ FailedTurn(k)) =>
                  k = Len(history) \/ history[k + 1].role = "user"
           /\ (RetryFrame(k) /\ ~CachedFrame) => sent.calls >= 1

\* with one client at a time an ask failed, and the same ask made again
\* without force_fresh went to the remote service and got its answer
C24_Witness ==
    /\ clients = 1
    /\ sent.response.status = "ok" /\ "command" \in sent.response.keys
    /\ ~CachedFrame /\ sent.calls >= 1
    /\ \E k \in 1..Len(history) : FirstRetryFrame(k)

\* handler v is blocked in a remote generation call
Blocked(v) == wk[v].pc = "waiting"

\* a connection that arrives now finds a handler thread
Arrives(w) == w <= clients /\ wk[w].pc = "idle" /\ \E v \in Workers : Blocked(v)

\* the step just taken answered a ping, a status or a history request
QuickFrame == sent'.command \in {"ping", "status", "history"}

\* C26: while an ask is blocked in a remote generation call, a ping, a status
\* and a history request arriving on another connection can be handled at
\* once, the response of a history request can be written at once, and the
\* step that answers any of them leaves every blocked ask blocked, with its
\* locals as they were
C26_AnsweredWhileAskBlocked ==
    [][/\ \A w \in Workers :
              Arrives(w) =>
                  \E u \in Workers :
                      /\ ENABLED HandlePing(u)
                      /\ ENABLED HandleStatus(u)
                      /\ events < MaxEvents => ENABLED HandleHistory(u)
       /\ \A w \in Workers : wk[w].pc = "dump" => ENABLED HistoryDump(w)
       /\ QuickFrame => \A v \in Workers : Blocked(v) => wk'[v] = wk[v]]_vars

\* a history request was answered while an ask was blocked in its remote call
C26_Witness ==
    /\ sent.command = "history"
    /\ \E v \in Workers : Blocked(v)

\* the text of the assistant turn for a command and an explanation given as
\* strings (server.py:195)
Encoded(command, explanation) ==
    <<"Command:", " ">> \o command \o <<NL, "Explanation:", " ">> \o explanation

\* C27: the reply that calls suggested_command ends the loop at once: the
\* handler returns without another remote call, the assistant turn encoding
\* the call's command and explanation is appended to history, and the response
\* has status ok, that command and explanation, and function_calls with every
\* call of the ask
C27_FinalAnswerEndsLoop ==
    [][\A w \in Workers, r \in FinalCalls :
          RemoteReply(w, r) =>
              /\ wk'[w].pc = "idle"
              /\ sent'.command = "ask" /\ sent'.rid = wk[w].rid
              /\ sent'.calls = wk[w].calls
              /\ history' = Append(history,
                                   Turn("assistant",
                                        Encoded(r.args.command, r.args.explanation),
                                        wk[w].rid))
              /\ sent'.response.status = "ok"
              /\ sent'.response.command = r.args.command
              /\ sent'.response.explanation = r.args.explanation
              /\ "function_calls" \in sent'.response.keys
              /\ sent'.response.function_calls = WithCall(wk[w], r)]_vars

\* a final answer came as the reply to the second remote call of an ask, after
\* a tool call
C27_Witness ==
    /\ sent.command = "ask" /\ sent.part \in FinalCalls
    /\ sent.calls = 2 /\ Len(sent.response.function_calls) = 2
    /\ sent.response.status = "ok"
    /\ history # <<>>
    /\ history[Len(history)] =
           Turn("assistant",
                Encoded(sent.part.args.command, sent.part.args.explanation), sent.rid)

\* the reply r to the last remote call the loop makes is no terminal result:
\* a tool call that is not the final answer and whose tool returned, or the
\* first plain text of the ask
UsesUpLoop(w, r) ==
    /\ ~HasNext(wk[w].iteration)
    /\ \/ /\ r.kind = "function_call"
          /\ LET result == execute_function(r.name, r.args)
             IN  result.tag # "raise" /\ ~result.is_final_answer
       \/ r.kind = "text" /\ wk[w].retry_count = 0

\* the last plain-text reply the ask of handler w has observed once it has
\* taken the reply r, or the placeholder
Observed(w, r) ==
    IF r.kind = "text" THEN r.text
    ELSE IF wk[w].retry_count = 0 THEN Placeholder
    ELSE LET c == wk[w].contents
             i == CHOOSE k \in 1..(Len(c) - 1) : c[k + 1] = CorrectiveItem
         IN  c[i].text

\* C28 as stated: when the 10 iterations are used up without a terminal
\* result, one assistant turn is appended whose content is the last plain-text
\* reply observed in this ask, or the placeholder when there was none, and the
\* response is status ok with that content behind the warning prefix
C28_ExhaustedLoopRecordsLastText ==
    [][\A w \in Workers, r \in Replies :
          (RemoteReply(w, r) /\ UsesUpLoop(w, r)) =>
              /\ history' = Append(history,
                                   Turn("assistant", Observed(w, r), wk[w].rid))
              /\ sent'.response.status = "ok"
              /\ sent'.response.message =
                     WarningMessage(Len(sent'.recorded), Observed(w, r))]_vars

\* what one ask has done so far stays within the limits
WithinLimits(made, recorded, users, assistants) ==
    /\ made <= MAX_ITERATIONS
    /\ Len(recorded) <= MAX_ITERATIONS
    /\ Len(recorded) <= made
    /\ users <= 1 /\ assistants <= 1

\* the turns of history that ask rid appended in the given role
TurnsOf(rid, role) ==
    {i \in 1..Len(history) : history[i].ask = rid /\ history[i].role = role}

\* C29: whatever the remote service returns, an ask makes at most 10 remote
\* calls, records at most 10 entries in function_calls and appends at most one
\* user turn and one assistant turn to history
C29_AskWithinLimits ==
    /\ \A w \in Workers :
           WithinLimits(wk[w].calls, wk[w].function_history,
                        wk[w].userAppends, wk[w].assistantAppends)
    /\ sent.command = "ask" =>
           /\ WithinLimits(sent.calls, sent.recorded,
                           sent.userAppends, sent.assistantAppends)
           /\ Len(sent.response.function_calls) <= MAX_ITERATIONS
    /\ \A i \in 1..Len(history) :
           /\ Cardinality(TurnsOf(history[i].ask, "user")) <= 1
           /\ Cardinality(TurnsOf(history[i].ask, "assistant")) <= 1

\* an ask whose 10th remote call got the final answer: 10 calls, 10 entries,
\* two turns
C29_Witness ==
    /\ sent.command = "ask"
    /\ sent.calls = MAX_ITERATIONS
    /\ Len(sent.response.function_calls) = MAX_ITERATIONS
    /\ sent.userAppends = 1 /\ sent.assistantAppends = 1
    /\ Cardinality(TurnsOf(sent.rid, "user")) = 1
    /\ Cardinality(TurnsOf(sent.rid, "assistant")) = 1

\* handler w issued the first remote call of its ask in the step just taken
FirstCall(w) == wk[w].pc = "build" /\ wk'[w].pc = "waiting"

\* the context c holds the turns of h, one item for each, in their order
MirrorsHistory(c, h) ==
    /\ Len(c) = Len(h)
    /\ \A i \in 1..Len(h) :
           /\ c[i].text = h[i].content
           /\ (h[i].role = "user") = (c[i].py # "dict")
           /\ (h[i].role = "assistant") = (c[i].py = "dict" /\ c[i].role = "model")

\* the step just taken appended an assistant turn to history
AssistantAppended ==
    /\ Len(history') = Len(history) + 1
    /\ history'[Len(history')].role = "assistant"

\* C30 as stated: when the first remote call of a fresh ask is issued, the
\* user turn of the ask has been appended, and the context of the call holds
\* all turns of history in order and ends with this user turn; an assistant
\* turn is appended only by the step in which the handler of its ask leaves
\* the loop and returns
C30_UserTurnThenContextThenAnswer ==
    [][/\ \A w \in Workers :
              FirstCall(w) =>
                  /\ wk[w].userAppends = 1
                  /\ wk'[w].calls = 1
                  /\ MirrorsHistory(wk'[w].contents, history)
                  /\ history # <<>>
                  /\ history[Len(history)] = Turn("user", wk[w].message, wk[w].rid)
       /\ AssistantAppended =>
              \E w \in Workers :
                  /\ Returned(w)
                  /\ history'[Len(history')].ask = wk[w].rid
                  /\ sent'.rid = wk[w].rid /\ sent'.response.status = "ok"]_vars

\* ------------------------------------------------- properties of the client
\* the step just taken ended a call of send_command
ClientEnds ==
    /\ fr.side = "client"
    /\ fr.pc \notin {"closed", "failed"} /\ fr'.pc \in {"closed", "failed"}

\* C25: send_command never raises: it ends with a returned value, and with an
\* error response that carries a message when the socket file is absent (no
\* connection is attempted then), when connect or sendall fails (connection
\* refused, broken pipe), when recv fails (time-out), when the daemon closed
\* without sending data and when the reply cannot be parsed; a value other
\* than these error responses is returned only for a reply that parses
C25_SendCommandNeverRaises ==
    [][ClientEnds =>
          /\ fr'.outcome \in {"value returned", "error returned"}
          /\ fr'.outcome = "error returned" => fr'.error # ""
          /\ fr.pc = "call" =>
                /\ fr'.outcome = "error returned"
                /\ fr'.error = ErrorMessage("absent")
                /\ ~fr'.attempted
          /\ fr.pc \in {"connect", "send", "recv"} =>
                fr'.outcome = "error returned" /\ fr'.attempted
          /\ (fr.pc = "loaded" /\ fr.data = <<>>) =>
                fr'.outcome = "error returned" /\ fr'.error = ErrorMessage("no data")
          /\ (fr.pc = "loaded" /\ fr.data # <<>> /\ ~Decoded(fr.data).ok) =>
                fr'.outcome = "error returned"
          /\ fr'.outcome = "value returned" =>
                fr.pc = "loaded" /\ Decoded(fr.data).ok]_vars

\* the client got a reply that cannot be parsed and returned an error response
C25_Witness ==
    /\ fr.side = "client" /\ fr.pc = "closed"
    /\ fr.attempted /\ fr.handed /\ ~fr.parsed.ok
    /\ fr.outcome = "error returned" /\ fr.error = ErrorMessage("ValueError")

\* ------------------------------------------ properties of the manager: start
\* start_daemon, called by client c, returns in this step
StartEnds(c) ==
    /\ mc[c].pc \in {"start_poll", "start_after"}
    /\ mc'[c].pc \notin {"start_poll", "start_after"}

\* what it returns, to the client's caller or to ensure_daemon_running
StartResult(c) == IF mc[c].ret = "top" THEN mc'[c].out ELSE mc'[c].result

StartupTimeout == "Daemon started but not responding (timeout)"
StartupFailed == "Failed to start daemon"

\* C31: start() returns success only in a round whose ping was answered ok,
\* after at most 10 rounds of the poll; when it does not return success it
\* returns the startup-timeout error exactly when the process it spawned is
\* still running after the poll, and the startup-failed error exactly when
\* that process has exited.
C31_StartReportsWhatHappened ==
    [][\A c \in Callers :
         StartEnds(c) =>
            /\ mc[c].attempt <= MAX_RETRIES
            /\ StartResult(c).status = "ok" =>
                  /\ mc'[c].pongs = mc[c].pongs + 1
                  /\ mc[c].attempt < MAX_RETRIES
            /\ StartResult(c).status # "ok" =>
                  /\ StartResult(c).message = StartupTimeout <=> Live(mc[c].pid)
                  /\ StartResult(c).message = StartupFailed <=> ~Live(mc[c].pid)]_vars

\* -------------------------------------- properties of the handlers: resets
\* the user turn of the ask that appended turn i precedes it in h
HasItsUserTurn(h, i) ==
    \E j \in 1..(i - 1) : h[j].role = "user" /\ h[j].ask = h[i].ask

\* C32: a reset that completes while an ask is in flight invalidates the
\* result of that ask: the assistant turn of an ask whose user turn was
\* appended before the reset is not appended to the history the reset left,
\* so every assistant turn in history has the user turn of its ask before it.
C32_ResetInvalidatesInFlightAsk ==
    \A i \in 1..Len(history) :
        history[i].role = "assistant" => HasItsUserTurn(history, i)

\* ------------------------------------- properties of the daemon: shutdown
\* C33: on a termination signal the daemon stops its accept loop, closes the
\* listening socket and removes the socket file and the PID marker file
\* before the process exits, whoever sent the signal: when _handle_shutdown
\* has run, the process is gone and neither file names it.
C33_ShutdownRemovesBothFiles ==
    [][\A p \in Pids :
         DaemonShutdown(p) =>
            /\ procs'[p].state \notin Living
            /\ sockFile' # p
            /\ pidFile' # p]_vars

\* ---------------------------- properties of the handlers: missing message
\* every element of h has role user or assistant and a text as its content
WellFormed(h) ==
    \A i \in 1..Len(h) :
        h[i].role \in {"user", "assistant"} /\ h[i].content # NoneVal

\* the frame answers an ask that carries a message with status error before
\* the remote service was called
FailsInLookup(frame) ==
    /\ frame.command = "ask" /\ frame.message # NoneVal
    /\ frame.response.status = "error" /\ frame.calls = 0

\* C34: every element of history has role user or assistant and text
\* content, also after an ask that carried no message; and such an ask does
\* not make a later ask that carries a message fail.
C34_HistoryWellFormed ==
    [][WellFormed(history') /\ ~FailsInLookup(sent')]_vars

\* ------------------------------ properties of the handlers: one at a time
\* every assistant turn of h comes right after a user turn
AnswersFollowQuestions(h) ==
    \A i \in 1..Len(h) :
        h[i].role = "assistant" => i > 1 /\ h[i - 1].role = "user"

\* C35: when the requests are handled one at a time, after any sequence of
\* ask, reset, history and ping requests, asks that ended with status error
\* among them, every assistant turn in history comes right after a user turn
\* and history does not begin with an assistant turn.
C35_AssistantFollowsUser ==
    clients = 1 => AnswersFollowQuestions(history)

\* with one client at a time, an ask that followed a failed ask was answered:
\* history holds the user turn the failed ask left, then the user turn and
\* the assistant turn of the answered ask
C35_Witness ==
    /\ clients = 1
    /\ sent.command = "ask" /\ sent.response.status = "ok"
    /\ sent.userAppends = 1 /\ sent.assistantAppends = 1
    /\ Len(history) >= 3
    /\ FailedTurn(Len(history) - 2)
    /\ history[Len(history) - 1] = Turn("user", sent.message, sent.rid)
    /\ history[Len(history)].role = "assistant"

\* -------------------------------- properties of the cache: which answer
\* the pairs of history a lookup for query can be answered from
CachedPairs(query) == {i \in 1..(Len(history) - 1) : CachedPair(i, query)}

\* the earliest of them
EarliestPair(query) ==
    CHOOSE i \in CachedPairs(query) : \A j \in CachedPairs(query) : i <= j

\* C36: when several user turns in history match the query, a cache hit
\* returns the answer paired with the earliest matching user turn that is
\* followed by a structured assistant turn; so after a force_fresh ask has
\* recorded another command for the query, an ask without force_fresh still
\* returns the command recorded first.
C36_EarliestPairWins ==
    CachedFrame =>
        /\ CachedPairs(sent.message) # {}
        /\ LET first == ParseCached(history[EarliestPair(sent.message) + 1].content)
           IN  /\ sent.response.command = first.command
               /\ sent.response.explanation = first.explanation

\* history holds two answers with different commands for the query, the
\* later one recorded by a force_fresh ask, and an ask without force_fresh
\* was answered from the cache with the command recorded first
C36_Witness ==
    /\ CachedFrame /\ ~sent.force_fresh
    /\ \E i, j \in CachedPairs(sent.message) :
          /\ i < j
          /\ i = EarliestPair(sent.message)
          /\ ParseCached(history[i + 1].content).command
                # ParseCached(history[j + 1].content).command
          /\ sent.response.command = ParseCached(history[i + 1].content).command

\* ------------------------------- properties of the cache: plain messages
\* the step just taken answered an ask with a plain message
PlainFrame ==
    /\ sent.command = "ask" /\ sent.response.status = "ok"
    /\ "message" \in sent.response.keys /\ "command" \notin sent.response.keys

\* C37: an answer delivered as a plain message is never returned as a cache
\* hit: when the query just answered with a plain message is asked again
\* without force_fresh, the ask is not answered from the cache but goes on to
\* append a new user turn and to the remote service.
C37_PlainMessageNeverCached ==
    [][\A w \in Workers, m \in MaybeMessages :
         (/\ PlainFrame /\ WellFormed(history)
          /\ m # NoneVal /\ SameQuery(m, sent.message)
          /\ AskCheck(w, m, FALSE))
         => /\ "cached" \notin sent'.response.keys
            /\ wk'[w].pc = "append"]_vars

\* --------------------------------- properties of the cache: the round trip
\* C38: the command and the explanation a cache hit returns are those of the
\* fresh structured response that recorded the answer it is taken from, for
\* every command and explanation the final-answer tool can carry, multi-line
\* explanations among them.
C38_CacheRoundTrip ==
    CachedFrame =>
        \A f \in FinalCalls :
            (/\ CachedPairs(sent.message) # {}
             /\ history[EarliestPair(sent.message) + 1].content = Answer(f))
            => /\ sent.response.command = f.args.command
               /\ sent.response.explanation = f.args.explanation

\* ------------------------------ properties of the cache: concurrent asks
\* turn i of history was appended by an ask for query
AnswersQuery(i, query) ==
    \E j \in 1..Len(history) :
        /\ history[j].role = "user" /\ history[j].ask = history[i].ask
        /\ SameQuery(history[j].content, query)

\* C39: also when asks for different queries were handled at the same time,
\* a cache hit for query Q returns a command that the remote service produced
\* in an ask for Q: the assistant turn it is read from was appended by an ask
\* for Q, never by another ask.
C39_CacheHitFromSameQuery ==
    CachedFrame =>
        /\ CachedPairs(sent.message) # {}
        /\ AnswersQuery(EarliestPair(sent.message) + 1, sent.message)

\* ------------------------------- properties of the manager: ensure races
\* client c's start_daemon has spawned the daemon and written its pid, the
\* daemon has not bound its socket yet, and c polls for it
Starting(c) ==
    /\ mc[c].op = "start" /\ mc[c].pc = "start_poll"
    /\ pidFile = mc[c].spawned
    /\ procs[mc[c].spawned].state \in {"booting", "unlinked"}

\* C40: when a second client calls ensure_daemon_running while the daemon a
\* first client's start_daemon has spawned is starting up (pid written,
\* socket not yet bound), the second client does not terminate that daemon:
\* no signal of the second client ends it.
C40_EnsureSparesStartingDaemon ==
    [][\A c, d \in Callers :
         (/\ c # d /\ Starting(c)
          /\ mc[d].op = "ensure" /\ (StopTerm(d) \/ StopForce(d)))
         => procs'[mc[c].spawned].state = procs[mc[c].spawned].state]_vars

====
